---- MODULE Spec2Model ----
(***************************************************************************)
(* A model of pyamg/amg_core/ruge_stuben.h: the classical strength of      *)
(* connection kernels, maximum_row_value, the Ruge-Stuben and CLJP C/F     *)
(* splittings, cr_helper and the two passes of the interpolation kernels.  *)
(* Arrays are functions on 0..len-1, as in the C++ source.                 *)
(* CSR matrices are the (row pointer, column index, value) triples the     *)
(* kernels receive.                                                        *)
(***************************************************************************)
EXTENDS Integers, Sequences, FiniteSets, TLC

VARIABLES
    prog,            \* which kernel this run executes
    pc,              \* position inside the kernel
    n_nodes,         \* rs_cf_splitting: number of nodes
    Sp, Sj,          \* rs_cf_splitting: CSR pattern of S
    Tp, Tj,          \* rs_cf_splitting: CSR pattern of T (S transposed)
    splitting,       \* rs_cf_splitting: the output array
    lambda,          \* rs_cf_splitting: std::vector<I> lambda
    interval_ptr,    \* rs_cf_splitting: std::vector<I> interval_ptr  (n+1)
    interval_count,  \* rs_cf_splitting: std::vector<I> interval_count (n+1)
    index_to_node,   \* rs_cf_splitting: std::vector<I> index_to_node (n)
    node_to_index,   \* rs_cf_splitting: std::vector<I> node_to_index (n)
    top_index,       \* rs_cf_splitting: cursor of the main loop
    node_i,          \* rs_cf_splitting: the local i of the main loop
    jj, kk,          \* rs_cf_splitting: cursors of the inner loops
    oob,             \* some access so far used an index outside its array
    n_row,           \* strength kernels: number of rows of A
    theta,           \* strength kernels: theta, in units of 1/ThetaDen
    Ap, Aj, Ax,      \* strength kernels: CSR arrays of A
    Sx,              \* strength kernels: values of S (with Sp, Sj above)
    nnz,             \* strength kernels: the local nnz
    row_i,           \* strength kernels: the row the outer loop is at
    x,               \* maximum_row_value: the output array
    colorflag,       \* cljp_naive_splitting: the parameter colorflag
    coloring,        \* cljp_naive_splitting: std::vector<int> coloring
    wden,            \* cljp_naive_splitting: weights are held in units of 1/wden
    base,            \* cljp_naive_splitting: weight after lines 392-406
    weight,          \* cljp_naive_splitting: std::vector<double> weight
    edgemark,        \* cljp_naive_splitting: std::vector<int> edgemark
    D, Dlist,        \* cljp_naive_splitting: the two vectors of marked nodes
    nD,              \* cljp_naive_splitting: number of nodes selected in the round
    unassigned,      \* cljp_naive_splitting: the counter unassigned
    pass,            \* cljp_naive_splitting: the counter pass
    c_dep_cache,     \* cljp_naive_splitting: the array c_dep_cache
    rand_state,      \* the generator behind srand() and rand(), one per process
    B,               \* cr_helper: the target vector B
    e_vec,           \* cr_helper: the relaxed vector e
    indices,         \* cr_helper: the array indices (n+1)
    gamma,           \* cr_helper: the array gamma, in units of 1/inf_norm
    thetacs,         \* cr_helper: thetacs, in units of 1/ThetaDen
    inf_norm,        \* cr_helper: the local inf_norm
    Uindex,          \* cr_helper: std::vector<I> Uindex
    omega,           \* cr_helper: std::vector<T> omega, in units of 1/inf_norm
    cr_iter,         \* cr_helper: passes of the loop of line 725 made so far
    P_rowptr,        \* interpolation: the row pointer of P (Bp)
    P_colinds,       \* interpolation: the column indices of P (Bj)
    P_data,          \* interpolation: the values of P (Bx)
    stores           \* interpolation: stores the row loop of pass 2 made to each slot

rsVars == <<n_nodes, Sp, Sj, Tp, Tj, splitting, lambda, interval_ptr,
            interval_count, index_to_node, node_to_index, top_index, node_i, jj, kk, oob>>

socVars == <<n_row, theta, Ap, Aj, Ax, Sx, nnz, row_i, x>>

cljpVars == <<colorflag, coloring, wden, base, weight, edgemark, D, Dlist, nD,
              unassigned, pass, c_dep_cache, rand_state>>

crVars == <<B, e_vec, indices, gamma, thetacs, inf_norm, Uindex, omega, cr_iter>>

\* the variables of the kernels that came after the first two families
ipVars == <<P_rowptr, P_colinds, P_data, stores>>

extVars == <<cljpVars, crVars, ipVars>>

\* the working variables of rs_cf_splitting
rsWork == <<lambda, interval_ptr, interval_count, index_to_node, node_to_index,
            top_index, node_i, jj, kk>>

vars == <<prog, pc, rsVars, socVars, extVars>>

(***************************************************************************)
(* Bounds of the model.                                                    *)
(***************************************************************************)
MaxN == 3        \* rs_cf_splitting: patterns on 0..MaxN nodes
MaxNnz == 9      \* rs_cf_splitting: at most this many stored entries of S
MaxRow == 2      \* strength kernels: A has 0..MaxRow rows
MaxAnz == 3      \* strength kernels: at most this many stored entries of A
CljpN == 3       \* cljp_naive_splitting: patterns on 0..CljpN nodes
CljpNnz == 3     \* cljp_naive_splitting: at most this many stored entries of S
BaseDen == 1     \* cljp_naive_splitting: rand() ranges over 0..BaseDen (RAND_MAX)
CrN == 3         \* cr_helper: A has 0..CrN rows
CrNnz == 2       \* cr_helper: at most this many stored entries of A
IpN == 3         \* interpolation: patterns on 0..IpN nodes
IpNnz == 2       \* interpolation: at most this many strong off-diagonal entries
FfN == 3         \* remove_strong_FF_connections: patterns on 0..FfN nodes
FfNnz == 3       \* remove_strong_FF_connections: at most this many stored entries of C
ThetaDen == 2    \* theta ranges over 0, 1/ThetaDen, ..., 1
Unit == 2        \* the magnitude of the value 1, in units of FltMin

Cols == 0..2                  \* strength kernels: column indices of A
Vals == {-2, -1, 0, 1, 2}     \* strength kernels: stored values of A

(***************************************************************************)
(* Node tags.                                                              *)
(***************************************************************************)
F_NODE == 0
C_NODE == 1
U_NODE == 2

(***************************************************************************)
(* CSR patterns.  A pattern is a set of <<row, column>> pairs; its CSR     *)
(* form lists each row's columns in ascending order, the form a CSR        *)
(* transpose (and classical_strength_of_connection on a sorted A) yields.  *)
(***************************************************************************)
Before(p, q) == p[1] < q[1] \/ (p[1] = q[1] /\ p[2] < q[2])

CsrP(P, n) == [i \in 0..n |-> Cardinality({p \in P : p[1] < i})]

CsrJ(P) ==
    [e \in 0..(Cardinality(P) - 1) |->
        (CHOOSE p \in P : Cardinality({q \in P : Before(q, p)}) = e)[2]]

Transpose(P) == {<<p[2], p[1]>> : p \in P}

\* Scenario S1: the 5-node 1D Laplacian tridiag(-1, 2, -1); every stored
\* entry is strong, so S has the pattern of A.
Laplacian5 == {<<i, j>> \in (0..4) \X (0..4) : i - j \in {-1, 0, 1}}

\* Scenario S3: A = diag(2, 2), S = diag.
Diag2 == {<<0, 0>>, <<1, 1>>}

\* All cells of an n by n pattern.
Cells(n) == (0..(n - 1)) \X (0..(n - 1))

Nodes == 0..(n_nodes - 1)

Zero(len) == [e \in 0..(len - 1) |-> 0]

InRange(p, len) == p \in 0..(len - 1)

\* arr[idx] = val; a store outside the array does not change the array.
Wr(arr, idx, val) == IF idx \in DOMAIN arr THEN [arr EXCEPT ![idx] = val] ELSE arr

(***************************************************************************)
(* The values the variables of a kernel hold in a run of another kernel.   *)
(***************************************************************************)
RsWorkIdle ==
    /\ lambda = Zero(0) /\ interval_ptr = Zero(1) /\ interval_count = Zero(1)
    /\ index_to_node = Zero(0) /\ node_to_index = Zero(0)
    /\ top_index = 0 /\ node_i = 0 /\ jj = 0 /\ kk = 0

SocIdle ==
    /\ n_row = 0 /\ theta = 0 /\ Ap = Zero(1) /\ Aj = Zero(0) /\ Ax = Zero(0)
    /\ Sx = Zero(0) /\ nnz = 0 /\ row_i = 0 /\ x = Zero(0)

CljpIdle ==
    /\ colorflag = 0 /\ coloring = Zero(0) /\ wden = 1 /\ base = Zero(0)
    /\ weight = Zero(0) /\ edgemark = Zero(0) /\ D = Zero(0) /\ Dlist = Zero(0)
    /\ nD = 0 /\ unassigned = 0 /\ pass = 0 /\ c_dep_cache = Zero(0)
    /\ rand_state = [seed |-> 1, calls |-> 0]

CrIdle ==
    /\ B = Zero(0) /\ e_vec = Zero(0) /\ indices = Zero(1) /\ gamma = Zero(0)
    /\ thetacs = 0 /\ inf_norm = 0 /\ Uindex = <<>> /\ omega = Zero(0) /\ cr_iter = 0

IpIdle ==
    /\ P_rowptr = Zero(1) /\ P_colinds = Zero(0) /\ P_data = Zero(0) /\ stores = Zero(0)

ExtIdle == CljpIdle /\ CrIdle /\ IpIdle

(***************************************************************************)
(* rs_cf_splitting, set-up (lines 214-254).                                *)
(***************************************************************************)
\* lines 217-219
Lambda0 == [i \in Nodes |-> Tp[i + 1] - Tp[i]]

\* lines 231-233: interval_count[lambda[i]]++ for every node
CountLambda(lam) ==
    [v \in 0..n_nodes |-> Cardinality({i \in Nodes : lam[i] = v})]

\* The last bucket the cumulative-sum loop of lines 234-238 visits is
\* n_nodes - 1: its header reads  i < n_nodes.
CumSumEnd == n_nodes

RECURSIVE SumBelow(_, _)
SumBelow(cnt, v) == IF v = 0 THEN 0 ELSE SumBelow(cnt, v - 1) + cnt[v - 1]

\* CumSumPtr with the two statements of the loop body exchanged: cumsum is
\* advanced before it is stored.
CumSumPtrInclusive(cnt) ==
    [v \in 0..n_nodes |-> IF v < CumSumEnd THEN SumBelow(cnt, v + 1) ELSE 0]

\* lines 234-238: interval_ptr after the loop (entries the loop does not
\* visit keep the 0 of the constructor)
CumSumPtr(cnt) ==
    [v \in 0..n_nodes |-> IF v < CumSumEnd THEN SumBelow(cnt, v) ELSE 0]

\* lines 234-238: interval_count after the loop (visited entries are reset)
CumSumCount(cnt) ==
    [v \in 0..n_nodes |-> IF v < CumSumEnd THEN 0 ELSE cnt[v]]

\* lines 239-245: place node i, then the nodes after it.  st is
\* [cnt, i2n, n2i, bad]; bad records a store outside index_to_node.
RECURSIVE Place(_, _, _, _)
Place(i, lam, ptr, st) ==
    IF i >= n_nodes THEN st
    ELSE LET lambda_i == lam[i]
             index    == ptr[lambda_i] + st.cnt[lambda_i]
         IN  Place(i + 1, lam, ptr,
                   [cnt |-> [st.cnt EXCEPT ![lambda_i] = @ + 1],
                    i2n |-> Wr(st.i2n, index, i),
                    n2i |-> [st.n2i EXCEPT ![i] = index],
                    bad |-> st.bad \/ ~InRange(index, n_nodes)])

\* PrePass that takes any row of T with one entry for the node alone.
PrePassAnySingle(lam) ==
    [i \in Nodes |-> IF lam[i] = 0 \/ lam[i] = 1 THEN F_NODE ELSE U_NODE]

\* PrePass without the test for a row of T that holds the node alone.
PrePassEmptyRowOnly(lam) ==
    [i \in Nodes |-> IF lam[i] = 0 THEN F_NODE ELSE U_NODE]

\* lines 248-254: fill with U, then the pre-pass
PrePass(lam) ==
    [i \in Nodes |->
        IF lam[i] = 0 \/ (lam[i] = 1 /\ Tj[Tp[i]] = i) THEN F_NODE ELSE U_NODE]

\* line 257: the loop runs while top_index != -1
LoopHead(t) == IF t = -1 THEN "done" ELSE "select"

RsSetup ==
    /\ prog = "rs" /\ pc = "start"
    /\ LET lam  == Lambda0
           cnt1 == CountLambda(lam)
           ptr  == CumSumPtr(cnt1)
           st   == Place(0, lam, ptr,
                         [cnt |-> CumSumCount(cnt1), i2n |-> Zero(n_nodes),
                          n2i |-> Zero(n_nodes), bad |-> FALSE])
       IN  /\ lambda' = lam
           /\ interval_ptr' = ptr
           /\ interval_count' = st.cnt
           /\ index_to_node' = st.i2n
           /\ node_to_index' = st.n2i
           /\ oob' = st.bad
           \* a store past the end of index_to_node is undefined: the run
           \* is killed, or the store lands outside the arrays of the call
           /\ \/ /\ st.bad
                 /\ pc' = "fault"
                 /\ UNCHANGED <<splitting, top_index>>
              \/ /\ pc' = LoopHead(n_nodes - 1)
                 /\ splitting' = PrePass(lam)
                 /\ top_index' = n_nodes - 1
    /\ UNCHANGED <<extVars, socVars, prog, n_nodes, Sp, Sj, Tp, Tj, node_i, jj, kk>>

(***************************************************************************)
(* rs_cf_splitting, main loop (lines 257-340).                             *)
(***************************************************************************)
\* lines 258-270: the node at the cursor is F: leave its interval, continue
RsSkip ==
    /\ prog = "rs" /\ pc = "select"
    /\ LET i == index_to_node[top_index]
       IN  /\ splitting[i] = F_NODE
           /\ interval_count' = [interval_count EXCEPT ![lambda[i]] = @ - 1]
           /\ node_i' = i
    /\ top_index' = top_index - 1
    /\ pc' = LoopHead(top_index - 1)
    /\ UNCHANGED <<extVars, socVars, prog, n_nodes, Sp, Sj, Tp, Tj, splitting, lambda, interval_ptr,
                   index_to_node, node_to_index, jj, kk, oob>>

\* lines 258-275: the node at the cursor is not F: it becomes C.  The
\* assert of line 273 kills the run in a build with assertions when the
\* node is not U; a build with NDEBUG goes on.
RsSelect ==
    /\ prog = "rs" /\ pc = "select"
    /\ LET i == index_to_node[top_index]
       IN  /\ splitting[i] # F_NODE
           /\ interval_count' = [interval_count EXCEPT ![lambda[i]] = @ - 1]
           /\ node_i' = i
           /\ \/ /\ splitting[i] # U_NODE
                 /\ pc' = "fault"
                 /\ UNCHANGED <<splitting, jj>>
              \/ /\ splitting' = [splitting EXCEPT ![i] = C_NODE]
                 /\ jj' = Tp[i]
                 /\ pc' = "T_loop"
    /\ UNCHANGED <<extVars, socVars, prog, n_nodes, Sp, Sj, Tp, Tj, lambda, interval_ptr,
                   index_to_node, node_to_index, top_index, kk, oob>>

\* lines 278-282: one pass of the loop over row i of T
RsTLoop ==
    /\ prog = "rs" /\ pc = "T_loop"
    /\ IF jj < Tp[node_i + 1]
       THEN IF splitting[Tj[jj]] = U_NODE
            THEN /\ splitting' = [splitting EXCEPT ![Tj[jj]] = F_NODE]
                 /\ kk' = Sp[Tj[jj]]
                 /\ pc' = "S_loop"
                 /\ UNCHANGED jj
            ELSE /\ jj' = jj + 1
                 /\ UNCHANGED <<splitting, kk, pc>>
       ELSE /\ jj' = Sp[node_i]
            /\ pc' = "dec_loop"
            /\ UNCHANGED <<splitting, kk>>
    /\ UNCHANGED <<extVars, socVars, prog, n_nodes, Sp, Sj, Tp, Tj, lambda, interval_ptr, interval_count,
                   index_to_node, node_to_index, top_index, node_i, oob>>

\* What a load of index_to_node[p] can give: the element, or, outside the
\* array, whatever lies there.
Rd(p) == IF InRange(p, n_nodes) THEN {index_to_node[p]} ELSE Nodes

\* line 290: the cap on lambda
AtCap(k) == lambda[k] >= n_nodes - 1

\* lines 292-306: move k to the end of its interval and into the next one;
\* a and b are the loads index_to_node[old_pos] and index_to_node[new_pos]
MoveUp(k, a, b) ==
    LET lambda_k == lambda[k]
        old_pos  == node_to_index[k]
        new_pos  == interval_ptr[lambda_k] + interval_count[lambda_k] - 1
    IN  [n2i |-> Wr(Wr(node_to_index, a, new_pos), b, old_pos),
         i2n |-> Wr(Wr(index_to_node, old_pos, b), new_pos, a),
         cnt |-> [interval_count EXCEPT ![lambda_k] = @ - 1, ![lambda_k + 1] = @ + 1],
         ptr |-> [interval_ptr EXCEPT ![lambda_k + 1] = new_pos],
         lam |-> [lambda EXCEPT ![k] = @ + 1],
         bad |-> ~InRange(old_pos, n_nodes) \/ ~InRange(new_pos, n_nodes)]

\* lines 321-336: move j to the start of its interval and into the one before
MoveDown(j, a, b) ==
    LET lambda_j == lambda[j]
        old_pos  == node_to_index[j]
        new_pos  == interval_ptr[lambda_j]
        cnt      == [interval_count EXCEPT ![lambda_j] = @ - 1, ![lambda_j - 1] = @ + 1]
        ptr1     == [interval_ptr EXCEPT ![lambda_j] = @ + 1]
    IN  [n2i |-> Wr(Wr(node_to_index, a, new_pos), b, old_pos),
         i2n |-> Wr(Wr(index_to_node, old_pos, b), new_pos, a),
         cnt |-> cnt,
         ptr |-> [ptr1 EXCEPT ![lambda_j - 1] = ptr1[lambda_j] - cnt[lambda_j - 1]],
         lam |-> [lambda EXCEPT ![j] = @ - 1],
         bad |-> ~InRange(old_pos, n_nodes) \/ ~InRange(new_pos, n_nodes)]

\* The arrays after a bucket move m; an access outside index_to_node is
\* undefined: the run is killed, or it goes on with what the loads gave.
ApplyMove(m, next_pc) ==
    /\ node_to_index' = m.n2i
    /\ index_to_node' = m.i2n
    /\ interval_count' = m.cnt
    /\ interval_ptr' = m.ptr
    /\ lambda' = m.lam
    /\ oob' = (oob \/ m.bad)
    /\ \/ m.bad /\ pc' = "fault"
       \/ pc' = next_pc

\* lines 285-308: one pass of the loop over row j of S, j = Tj[jj]
RsSLoop ==
    /\ prog = "rs" /\ pc = "S_loop"
    /\ IF kk < Sp[Tj[jj] + 1]
       THEN /\ kk' = kk + 1
            /\ UNCHANGED jj
            /\ LET k == Sj[kk]
               IN  IF splitting[k] = U_NODE /\ ~AtCap(k)
                   THEN \E a \in Rd(node_to_index[k]),
                           b \in Rd(interval_ptr[lambda[k]] + interval_count[lambda[k]] - 1) :
                            ApplyMove(MoveUp(k, a, b), "S_loop")
                   ELSE UNCHANGED <<node_to_index, index_to_node, interval_count,
                                    interval_ptr, lambda, oob, pc>>
       ELSE /\ jj' = jj + 1
            /\ pc' = "T_loop"
            /\ UNCHANGED <<kk, node_to_index, index_to_node, interval_count,
                           interval_ptr, lambda, oob>>
    /\ UNCHANGED <<extVars, socVars, prog, n_nodes, Sp, Sj, Tp, Tj, splitting, top_index, node_i>>

\* lines 313-338: one pass of the loop over row i of S
RsDecLoop ==
    /\ prog = "rs" /\ pc = "dec_loop"
    /\ IF jj < Sp[node_i + 1]
       THEN /\ jj' = jj + 1
            /\ UNCHANGED top_index
            /\ LET j == Sj[jj]
               IN  IF splitting[j] = U_NODE /\ lambda[j] # 0
                   THEN \E a \in Rd(node_to_index[j]), b \in Rd(interval_ptr[lambda[j]]) :
                            ApplyMove(MoveDown(j, a, b), "dec_loop")
                   ELSE UNCHANGED <<node_to_index, index_to_node, interval_count,
                                    interval_ptr, lambda, oob, pc>>
       ELSE /\ top_index' = top_index - 1
            /\ pc' = LoopHead(top_index - 1)
            /\ UNCHANGED <<jj, node_to_index, index_to_node, interval_count,
                           interval_ptr, lambda, oob>>
    /\ UNCHANGED <<extVars, socVars, prog, n_nodes, Sp, Sj, Tp, Tj, splitting, node_i, kk>>

\* The state at entry with the pattern P on n nodes as S, its transpose as T.
RsEntry(n, P) ==
    /\ prog = "rs" /\ pc = "start"
    /\ n_nodes = n
    /\ Sp = CsrP(P, n)
    /\ Sj = CsrJ(P)
    /\ Tp = CsrP(Transpose(P), n)
    /\ Tj = CsrJ(Transpose(P))
    \* the caller's array; line 248 overwrites it before any load
    /\ splitting = Zero(n)
    /\ lambda = Zero(n)
    /\ interval_ptr = Zero(n + 1)
    /\ interval_count = Zero(n + 1)
    /\ index_to_node = Zero(n)
    /\ node_to_index = Zero(n)
    /\ top_index = 0 /\ node_i = 0 /\ jj = 0 /\ kk = 0
    /\ oob = FALSE
    /\ n_row = 0 /\ theta = 0 /\ Ap = Zero(1) /\ Aj = Zero(0) /\ Ax = Zero(0)
    /\ Sx = Zero(0) /\ nnz = 0 /\ row_i = 0 /\ x = Zero(0)
    /\ ExtIdle

InitRS ==
    \/ \E n \in 0..MaxN : \E P \in SUBSET Cells(n) :
          Cardinality(P) <= MaxNnz /\ RsEntry(n, P)
    \/ RsEntry(5, Laplacian5)

NextRS == RsSetup \/ RsSkip \/ RsSelect \/ RsTLoop \/ RsSLoop \/ RsDecLoop

SpecRS == InitRS /\ [][NextRS]_vars

(***************************************************************************)
(* Properties of rs_cf_splitting.                                          *)
(***************************************************************************)
Returned == pc = "done"

IsLaplacian5 == n_nodes = 5 /\ Sp = CsrP(Laplacian5, 5) /\ Sj = CsrJ(Laplacian5)

\* The row of T of node i is empty, or holds i alone.
NoInfluence(i) ==
    \/ Tp[i + 1] = Tp[i]
    \/ (Tp[i + 1] - Tp[i] = 1 /\ Tj[Tp[i]] = i)

\* C1: after the splitting returns every entry of splitting[0..n) is F (0)
\* or C (1); no node keeps the transient tag U (2).
C1_NoNodeLeftU ==
    Returned => \A i \in Nodes : splitting[i] \in {F_NODE, C_NODE}

\* C2: on the 5-node 1D Laplacian (scenario S1) rs_cf_splitting returns
\* {C,F,C,F,C} = [1,0,1,0,1].
C2_S1_CFCFC ==
    (prog = "rs" /\ Returned /\ IsLaplacian5) =>
        splitting = [i \in 0..4 |-> IF i \in {0, 2, 4} THEN C_NODE ELSE F_NODE]

\* C2 as amended: on the 5-node 1D Laplacian (scenario S1) rs_cf_splitting
\* returns {F,C,F,C,F} = [0,1,0,1,0].
C2_S1_FCFCF ==
    (prog = "rs" /\ Returned /\ IsLaplacian5) =>
        splitting = [i \in 0..4 |-> IF i \in {1, 3} THEN C_NODE ELSE F_NODE]

C2_Witness == prog = "rs" /\ Returned /\ IsLaplacian5 /\ splitting[3] = C_NODE

\* C3: every load and store of the working arrays of rs_cf_splitting uses
\* an index inside the array, in the set-up and in the main loop.
C3_MemorySafe == prog = "rs" => ~oob

\* C4: whenever the main loop is about to mark the node i at the cursor as
\* C, lambda[i] >= lambda[k] for every node k that is still U.
C4_SelectsMaxLambda ==
    (prog = "rs" /\ pc = "select" /\ splitting[index_to_node[top_index]] = U_NODE) =>
        \A k \in Nodes :
            splitting[k] = U_NODE => lambda[index_to_node[top_index]] >= lambda[k]

\* C5: after rs_cf_splitting every node whose row of T is empty, or holds
\* the node alone, is F; on the diagonal-only S of scenario S3 all are F.
C5_NoInfluenceIsF ==
    (prog = "rs" /\ Returned) =>
        /\ \A i \in Nodes : NoInfluence(i) => splitting[i] = F_NODE
        /\ (n_nodes = 2 /\ Sp = CsrP(Diag2, 2) /\ Sj = CsrJ(Diag2)) =>
              splitting = [i \in 0..1 |-> F_NODE]

\* A returned run with a node of empty T row, a node alone in its T row,
\* and a C node beside them.
C5_Witness ==
    /\ prog = "rs" /\ Returned
    /\ \E i, j, c \in Nodes :
          /\ Tp[i + 1] = Tp[i]
          /\ Tp[j + 1] - Tp[j] = 1 /\ Tj[Tp[j]] = j
          /\ splitting[c] = C_NODE
          /\ splitting[i] = F_NODE /\ splitting[j] = F_NODE

(***************************************************************************)
(* classical_strength_of_connection_abs / _min and maximum_row_value       *)
(* (lines 46-181).  Magnitudes are integers: the value v has magnitude     *)
(* Unit * |v|, and FltMin is std::numeric_limits<F>::min(), the least      *)
(* positive normal number, which lies below every non-zero magnitude.      *)
(* Products with theta are compared exactly (both sides times ThetaDen).   *)
(***************************************************************************)
Rows == 0..(n_row - 1)

\* std::numeric_limits<F>::min() (lines 60 and 169)
FltMin == 1

\* the initial max_offdiagonal of classical_strength_of_connection_min, 0.0
MinInit == 0

Abs(v) == IF v < 0 THEN -v ELSE v

\* mynorm of linalg.h for a real value
mynorm(v) == Unit * Abs(v)

\* -Ax[jj] on the scale of the magnitudes
Negated(v) == Unit * (-v)

SetMax(S) == CHOOSE m \in S : \A y \in S : y <= m

SetMin(S) == CHOOSE m \in S : \A y \in S : m <= y

RECURSIVE Asc(_)
\* the elements of a finite set of integers in ascending order
Asc(K) == IF K = {} THEN <<>> ELSE <<SetMin(K)>> \o Asc(K \ {SetMin(K)})

RowEntries(i) == Ap[i]..(Ap[i + 1] - 1)

\* lines 60-69: max_offdiagonal of row i
MaxOffdiagonalAbs(i) ==
    SetMax({FltMin} \cup {mynorm(Ax[e]) : e \in {d \in RowEntries(i) : Aj[d] # i}})

\* MaxOffdiagonalMin taking magnitudes, as the abs kernel does.
MaxOffdiagonalMinNorm(i) ==
    SetMax({MinInit} \cup {mynorm(Ax[e]) : e \in {d \in RowEntries(i) : Aj[d] # i}})

\* lines 110-119: max_offdiagonal of row i
MaxOffdiagonalMin(i) ==
    SetMax({MinInit} \cup {Negated(Ax[e]) : e \in {d \in RowEntries(i) : Aj[d] # i}})

\* GeThreshold with the factor theta forgotten.
GeThresholdNoTheta(norm_jj, max_offdiagonal) == norm_jj >= max_offdiagonal

\* lines 71 and 76 (121 and 126): norm_jj >= theta * max_offdiagonal
GeThreshold(norm_jj, max_offdiagonal) ==
    norm_jj * ThetaDen >= theta * max_offdiagonal

\* Appended without the second if: the diagonal has to pass the threshold.
AppendedIfPassed(i, e, passed) == passed

\* lines 75-89 (125-139): is entry e of row i appended to S, given whether
\* it passed the threshold
Appended(i, e, passed) ==
    \/ (passed /\ Aj[e] # i)
    \/ Aj[e] = i

\* lines 72-92: the entries of row i that classical_strength_of_connection_abs
\* appends, in the order of the row
KeptAbs(i) ==
    Asc({e \in RowEntries(i) :
            Appended(i, e, GeThreshold(mynorm(Ax[e]), MaxOffdiagonalAbs(i)))})

\* lines 122-142: the same for classical_strength_of_connection_min
KeptMin(i) ==
    Asc({e \in RowEntries(i) :
            Appended(i, e, GeThreshold(Negated(Ax[e]), MaxOffdiagonalMin(i)))})

\* lines 174-179: max_entry of row i
MaxEntry(i) == SetMax({FltMin} \cup {mynorm(Ax[e]) : e \in RowEntries(i)})

\* the stores Sj[nnz] = Aj[jj], Sx[nnz] = Ax[jj], nnz++ for the entries of kept
AppendTo(arr, src, kept) ==
    [e \in DOMAIN arr |->
        IF e >= nnz /\ e < nnz + Len(kept) THEN src[kept[e - nnz + 1]] ELSE arr[e]]

RowsHead(i) == IF i < n_row THEN "rows" ELSE "done"

\* lines 56-57 and 106-107
SocStart ==
    /\ prog \in {"soc_abs", "soc_min"} /\ pc = "start"
    /\ nnz' = 0
    /\ Sp' = [Sp EXCEPT ![0] = 0]
    /\ row_i' = 0
    /\ pc' = RowsHead(0)
    /\ UNCHANGED <<extVars, prog, n_nodes, Sj, Tp, Tj, splitting, lambda, interval_ptr,
                   interval_count, index_to_node, node_to_index, top_index, node_i,
                   jj, kk, oob, n_row, theta, Ap, Aj, Ax, Sx, x>>

SocRow(kept) ==
    /\ Sj' = AppendTo(Sj, Aj, kept)
    /\ Sx' = AppendTo(Sx, Ax, kept)
    /\ nnz' = nnz + Len(kept)
    /\ Sp' = [Sp EXCEPT ![row_i + 1] = nnz + Len(kept)]
    /\ row_i' = row_i + 1
    /\ pc' = RowsHead(row_i + 1)
    /\ UNCHANGED <<extVars, prog, n_nodes, Tp, Tj, splitting, lambda, interval_ptr,
                   interval_count, index_to_node, node_to_index, top_index, node_i,
                   jj, kk, oob, n_row, theta, Ap, Aj, Ax, x>>

\* lines 59-93: one pass of the loop over the rows
SocAbsRow == prog = "soc_abs" /\ pc = "rows" /\ SocRow(KeptAbs(row_i))

\* lines 109-143: one pass of the loop over the rows
SocMinRow == prog = "soc_min" /\ pc = "rows" /\ SocRow(KeptMin(row_i))

\* lines 168-180: one pass of the loop over the rows
MaxRowValueRow ==
    /\ prog = "max_row" /\ pc = "rows"
    /\ x' = [x EXCEPT ![row_i] = MaxEntry(row_i)]
    /\ row_i' = row_i + 1
    /\ pc' = RowsHead(row_i + 1)
    /\ UNCHANGED <<extVars, prog, rsVars, n_row, theta, Ap, Aj, Ax, Sx, nnz>>

\* The state at entry of kernel k with the matrix A of n rows whose stored
\* entries are the cells P, the e-th of them (in CSR order) holding v[e].
SocEntry(k, t, n, P, v) ==
    /\ prog = k
    /\ theta = t
    /\ n_row = n
    /\ Ap = CsrP(P, n)
    /\ Aj = CsrJ(P)
    /\ Ax = [e \in 0..(Cardinality(P) - 1) |-> v[e]]
    \* the caller's arrays, sized as A
    /\ Sp = Zero(n + 1) /\ Sj = Zero(Cardinality(P)) /\ Sx = Zero(Cardinality(P))
    /\ x = Zero(n)
    /\ pc = IF k = "max_row" THEN RowsHead(0) ELSE "start"
    /\ nnz = 0 /\ row_i = 0
    /\ n_nodes = 0 /\ Tp = Zero(1) /\ Tj = Zero(0) /\ splitting = Zero(0)
    /\ lambda = Zero(0) /\ interval_ptr = Zero(1) /\ interval_count = Zero(1)
    /\ index_to_node = Zero(0) /\ node_to_index = Zero(0)
    /\ top_index = 0 /\ node_i = 0 /\ jj = 0 /\ kk = 0 /\ oob = FALSE
    /\ ExtIdle

InitSOC ==
    \E k \in {"soc_abs", "soc_min", "max_row"} :
    \E t \in 0..ThetaDen :
    \E n \in 0..MaxRow :
    \E P \in SUBSET ((0..(n - 1)) \X Cols) :
    \E v \in [0..(MaxAnz - 1) -> Vals] :
        /\ k = "max_row" => t = 0        \* maximum_row_value takes no theta
        /\ Cardinality(P) <= MaxAnz
        \* values past the stored entries do not belong to the input
        /\ \A e \in Cardinality(P)..(MaxAnz - 1) : v[e] = 0
        /\ SocEntry(k, t, n, P, v)

NextSOC == SocStart \/ SocAbsRow \/ SocMinRow \/ MaxRowValueRow

SpecSOC == InitSOC /\ [][NextSOC]_vars

(***************************************************************************)
(* cljp_naive_splitting (lines 361-525).  A weight is an integer number of *)
(* units of 1/wden: wden is ncolors with colorflag = 1 and RAND_MAX (here  *)
(* BaseDen) otherwise, so that the value 1 is wden units.                  *)
(***************************************************************************)
\* the positions jj = ptr[i], ..., ptr[i+1] - 1 of a row, in loop order
RowSeq(ptr, i) == [q \in 1..(ptr[i + 1] - ptr[i]) |-> ptr[i] + q - 1]

RECURSIVE Concat(_)
Concat(ss) == IF ss = <<>> THEN <<>> ELSE Head(ss) \o Concat(Tail(ss))

\* the row i of the loop of line 408 in which position e of Sj lies
RowOfEntry(e) == CHOOSE i \in Nodes : Sp[i] <= e /\ e < Sp[i + 1]

\* What vertex_coloring_mis (graph.h) can return at line 395: a colouring
\* of the graph of S with the colours 0..K-1, each of them used.
IsColoring(c) ==
    /\ \A i \in Nodes : \A e \in Sp[i]..(Sp[i + 1] - 1) :
          Sj[e] # i => c[Sj[e]] # c[i]
    /\ \A i \in Nodes : \A m \in 0..c[i] : \E k \in Nodes : c[k] = m

\* line 396: *std::max_element(...) + 1
NColors(c) == SetMax({c[i] : i \in Nodes}) + 1

\* line 402: the seed
CljpSeed == 2448422

\* line 402: srand(seed) restarts the generator of the process
Seeded(st, seed) == [seed |-> seed, calls |-> 0]

\* lines 403-405: k calls of rand() advance the generator of the process
Drawn(st, k) == [st EXCEPT !.calls = @ + k]

\* the generator of the process at entry: never seeded and unused (the
\* seed is then 1), or used before the call
RandStates == {[seed |-> 1, calls |-> c] : c \in {0, 1}}

\* WeightCount without the test i != j of line 411.
WeightCountWithDiagonal(j) == Cardinality({e \in DOMAIN Sj : Sj[e] = j})

\* lines 408-415: how often weight[j]++ runs for node j
WeightCount(j) ==
    Cardinality({e \in DOMAIN Sj : Sj[e] = j /\ RowOfEntry(e) # j})

\* lines 379-386 and 408-415, once lines 392-406 have set weight to b (in
\* units of 1/den)
CljpStart(cf_coloring, den, b) ==
    /\ coloring' = cf_coloring
    /\ wden' = den
    /\ base' = b
    /\ weight' = [j \in Nodes |-> b[j] + den * WeightCount(j)]
    /\ edgemark' = [e \in 0..(Sp[n_nodes] - 1) |-> 1]
    /\ D' = Zero(n_nodes)
    /\ Dlist' = Zero(n_nodes)
    /\ splitting' = [i \in Nodes |-> U_NODE]
    /\ c_dep_cache' = [i \in Nodes |-> -1]
    /\ unassigned' = n_nodes
    /\ pass' = 0
    /\ nD' = 0

\* lines 370-416.  With colorflag = 1 and n = 0 line 396 reads through the
\* end iterator of an empty vector: the run is killed, or goes on with
\* whatever value the read gave.
CljpWeights ==
    /\ prog = "cljp" /\ pc = "start"
    /\ \/ /\ colorflag = 1 /\ n_nodes > 0
          /\ \E c \in [Nodes -> 0..(n_nodes - 1)] :
                IsColoring(c) /\ CljpStart(c, NColors(c), c)
          /\ pc' = "round"
          /\ UNCHANGED <<oob, rand_state>>
       \/ /\ colorflag = 1 /\ n_nodes = 0
          /\ \E den \in 1..BaseDen : CljpStart(Zero(0), den, Zero(0))
          /\ oob' = TRUE
          /\ pc' \in {"fault", "round"}
          /\ UNCHANGED rand_state
       \/ /\ colorflag # 1
          /\ \E r \in [Nodes -> 0..BaseDen] : CljpStart(Zero(n_nodes), BaseDen, r)
          /\ rand_state' = Drawn(Seeded(rand_state, CljpSeed), n_nodes)
          /\ pc' = "round"
          /\ UNCHANGED oob
    /\ UNCHANGED <<prog, n_nodes, Sp, Sj, Tp, Tj, colorflag, rsWork, socVars, crVars, ipVars>>

\* Outweighs that also holds between equal weights.
OutweighsOrTies(wj, wi) == wj >= wi

\* lines 432 and 441: weight[j] > weight[i]
Outweighs(wj, wi) == wj > wi

\* lines 430-446: some U node of row i of S or of T outweighs i
Blocked(i) ==
    \/ \E e \in Sp[i]..(Sp[i + 1] - 1) :
          splitting[Sj[e]] = U_NODE /\ Outweighs(weight[Sj[e]], weight[i])
    \/ \E e \in Tp[i]..(Tp[i + 1] - 1) :
          splitting[Tj[e]] = U_NODE /\ Outweighs(weight[Tj[e]], weight[i])

\* lines 426-456: the nodes with D[i] = 1 after the loop
Selected == {i \in Nodes : splitting[i] = U_NODE /\ ~Blocked(i)}

\* lines 420-460: the head of the while loop and the selection of a round.
\* A run whose pass counter has left 0..n is not followed further.
CljpSelect ==
    /\ prog = "cljp" /\ pc = "round"
    /\ unassigned > 0
    /\ pass <= n_nodes
    /\ pass' = pass + 1
    /\ D' = [i \in Nodes |-> IF i \in Selected THEN 1 ELSE 0]
    /\ nD' = Cardinality(Selected)
    /\ Dlist' = [q \in DOMAIN Dlist |->
                    IF q < Cardinality(Selected) THEN Asc(Selected)[q + 1] ELSE Dlist[q]]
    /\ unassigned' = unassigned - Cardinality(Selected)
    /\ splitting' = [i \in Nodes |-> IF i \in Selected THEN C_NODE ELSE splitting[i]]
    /\ pc' = "P5"
    /\ UNCHANGED <<prog, n_nodes, Sp, Sj, Tp, Tj, colorflag, coloring, wden, base,
                   weight, edgemark, c_dep_cache, rand_state, oob, rsWork, socVars,
                   crVars, ipVars>>

\* RemoveEdge without the statement unassigned-- of lines 475 and 503.
RemoveEdgeKeepsCount(e, k, st) ==
    LET w == st.weight[k] - wden
    IN  [st EXCEPT !.edgemark[e] = 0,
                   !.weight[k] = w,
                   !.splitting[k] = IF w < wden THEN F_NODE ELSE @]

\* lines 471-476 and 499-504: the edge at position e is removed and the
\* weight of node k goes down by one; below 1 the node becomes F.  st holds
\* splitting, edgemark, weight, unassigned and c_dep_cache.
RemoveEdge(e, k, st) ==
    LET w == st.weight[k] - wden
    IN  [st EXCEPT !.edgemark[e] = 0,
                   !.weight[k] = w,
                   !.splitting[k] = IF w < wden THEN F_NODE ELSE @,
                   !.unassigned = IF w < wden THEN @ - 1 ELSE @]

\* lines 468-477: the body of the inner loop of P5 at position e
P5Step(e, st) ==
    IF st.splitting[Sj[e]] = U_NODE /\ st.edgemark[e] # 0
    THEN RemoveEdge(e, Sj[e], st)
    ELSE st

RECURSIVE P5Loop(_, _)
P5Loop(es, st) == IF es = <<>> THEN st ELSE P5Loop(Tail(es), P5Step(Head(es), st))

\* lines 465-467: the positions the two loops of P5 visit, in order
P5Entries == Concat([q \in 1..nD |-> RowSeq(Sp, Dlist[q - 1])])

\* lines 486-490: the first inner loop of P6 for the C node c
P6Mark(c, st) ==
    [st EXCEPT !.c_dep_cache =
        [j \in Nodes |->
            IF st.splitting[j] = U_NODE /\ (\E e \in Tp[c]..(Tp[c + 1] - 1) : Tj[e] = j)
            THEN c ELSE @[j]]]

\* lines 495-507: the body of the innermost loop of P6 at position e
P6Step(c, e, st) ==
    IF st.splitting[Sj[e]] = U_NODE /\ st.edgemark[e] # 0 /\ st.c_dep_cache[Sj[e]] = c
    THEN RemoveEdge(e, Sj[e], st)
    ELSE st

RECURSIVE P6Inner(_, _, _)
P6Inner(c, es, st) ==
    IF es = <<>> THEN st ELSE P6Inner(c, Tail(es), P6Step(c, Head(es), st))

\* lines 492-494: the positions kk the second inner loop of P6 visits for c
P6Entries(c) ==
    Concat([q \in 1..(Tp[c + 1] - Tp[c]) |-> RowSeq(Sp, Tj[Tp[c] + q - 1])])

RECURSIVE P6Loop(_, _)
\* lines 484-510: the loop of P6 over the C nodes cs of the round
P6Loop(cs, st) ==
    IF cs = <<>> THEN st
    ELSE P6Loop(Tail(cs), P6Inner(Head(cs), P6Entries(Head(cs)), P6Mark(Head(cs), st)))

CljpState ==
    [splitting |-> splitting, edgemark |-> edgemark, weight |-> weight,
     unassigned |-> unassigned, c_dep_cache |-> c_dep_cache]

CljpUpdate(st, next_pc) ==
    /\ splitting' = st.splitting
    /\ edgemark' = st.edgemark
    /\ weight' = st.weight
    /\ unassigned' = st.unassigned
    /\ c_dep_cache' = st.c_dep_cache
    /\ pc' = next_pc
    /\ UNCHANGED <<prog, n_nodes, Sp, Sj, Tp, Tj, colorflag, coloring, wden, base,
                   D, Dlist, nD, pass, rand_state, oob, rsWork, socVars, crVars, ipVars>>

\* lines 465-479
CljpP5 ==
    /\ prog = "cljp" /\ pc = "P5"
    /\ CljpUpdate(P5Loop(P5Entries, CljpState), "P6")

\* lines 484-510
CljpP6 ==
    /\ prog = "cljp" /\ pc = "P6"
    /\ CljpUpdate(P6Loop([q \in 1..nD |-> Dlist[q - 1]], CljpState), "round")

\* lines 420 and 514-524: the loop is left, the marks and the tags are
\* rewritten
CljpFinish ==
    /\ prog = "cljp" /\ pc = "round"
    /\ ~(unassigned > 0)
    /\ edgemark' = [e \in DOMAIN edgemark |-> IF edgemark[e] = 0 THEN -1 ELSE edgemark[e]]
    /\ splitting' = [i \in Nodes |-> IF splitting[i] = U_NODE THEN F_NODE ELSE splitting[i]]
    /\ pc' = "done"
    /\ UNCHANGED <<prog, n_nodes, Sp, Sj, Tp, Tj, colorflag, coloring, wden, base,
                   weight, D, Dlist, nD, unassigned, pass, c_dep_cache, rand_state, oob,
                   rsWork, socVars, crVars, ipVars>>

\* The state at entry with the pattern P on n nodes as S, its transpose as T.
CljpEntry(n, P, cf) ==
    /\ prog = "cljp" /\ pc = "start"
    /\ n_nodes = n
    /\ Sp = CsrP(P, n)
    /\ Sj = CsrJ(P)
    /\ Tp = CsrP(Transpose(P), n)
    /\ Tj = CsrJ(Transpose(P))
    /\ colorflag = cf
    \* the caller's array; line 384 overwrites it before any load
    /\ splitting = Zero(n)
    /\ coloring = Zero(n) /\ wden = 1 /\ base = Zero(n) /\ weight = Zero(n)
    /\ edgemark = Zero(0) /\ D = Zero(n) /\ Dlist = Zero(n)
    /\ nD = 0 /\ unassigned = n /\ pass = 0 /\ c_dep_cache = Zero(n)
    /\ rand_state \in RandStates
    /\ oob = FALSE
    /\ RsWorkIdle /\ SocIdle /\ CrIdle /\ IpIdle

InitCLJP ==
    \E n \in 0..CljpN : \E P \in SUBSET Cells(n) : \E cf \in {0, 1} :
        Cardinality(P) <= CljpNnz /\ CljpEntry(n, P, cf)

NextCLJP == CljpWeights \/ CljpSelect \/ CljpP5 \/ CljpP6 \/ CljpFinish

SpecCLJP == InitCLJP /\ [][NextCLJP]_vars

(***************************************************************************)
(* cr_helper (lines 671-787).  n is n_nodes, A_rowptr and A_colinds are Ap *)
(* and Aj.  e[p] / B[p] is an integer here (B[p] is 1 or -1); gamma and    *)
(* omega are integers in units of 1/inf_norm, so that gamma[p] is the      *)
(* stored e[p] and the value 1 is inf_norm units.                          *)
(***************************************************************************)
\* the value of 0 / 0 at line 700
NaN == -1

\* the values of e the model draws from at the F points; it also draws the
\* vector e = 0
CrEVals == {-2, 1}

\* B[i]: 1 at the even nodes, -1 at the odd ones
CrB(n) == [i \in 0..(n - 1) |-> IF i % 2 = 0 THEN 1 ELSE -1]

\* lines 688-689 and 698-699: the F points indices[1..num_Fpts], in order
FList == [q \in 1..indices[0] |-> indices[q]]

\* the points the loops over indices[1..indices[0]] visit
FSet == {indices[q] : q \in 1..indices[0]}

\* line 690: std::abs(e[pt] / B[pt]), B[pt] being 1 or -1
AbsQuotient(a, b) == Abs(a * b)

\* lines 687-694: e after the first loop
ENormalised ==
    [p \in Nodes |->
        IF p \in FSet
        THEN AbsQuotient(e_vec[p], B[p]) ELSE e_vec[p]]

\* lines 700-701: gamma[pt] > thetacs for gamma[pt] = ev / inf; the
\* quotient 0 / 0 is a NaN, which is not greater than anything
IsCandidate(ev, inf) == inf # 0 /\ ev * ThetaDen > thetacs * inf

\* lines 698-704: the points of seq that are pushed to Uindex, in order
RECURSIVE SelectCandidates(_, _, _)
SelectCandidates(seq, ev, inf) ==
    IF seq = <<>> THEN <<>>
    ELSE (IF IsCandidate(ev[Head(seq)], inf) THEN <<Head(seq)>> ELSE <<>>)
             \o SelectCandidates(Tail(seq), ev, inf)

\* lines 712-720: the number of entries of row pt whose column is an F point
NumFNeighbors(pt) ==
    Cardinality({d \in Ap[pt]..(Ap[pt + 1] - 1) : splitting[Aj[d]] = 0})

\* lines 687-722: e, inf_norm, gamma, Uindex and omega before the loop
CrMeasure ==
    /\ prog = "cr" /\ pc = "start"
    /\ LET ev  == ENormalised
           inf == SetMax({0} \cup {ev[FList[q]] : q \in DOMAIN FList})
           U   == SelectCandidates(FList, ev, inf)
       IN  /\ e_vec' = ev
           /\ inf_norm' = inf
           /\ gamma' = [p \in Nodes |->
                           IF p \in FSet
                           THEN (IF inf = 0 THEN NaN ELSE ev[p])
                           ELSE gamma[p]]
           /\ Uindex' = U
           /\ omega' = [p \in Nodes |->
                           IF p \in {U[q] : q \in DOMAIN U}
                           THEN NumFNeighbors(p) * inf + ev[p]
                           ELSE 0]
    /\ pc' = "greedy"
    /\ UNCHANGED <<prog, rsVars, n_row, theta, Ap, Aj, Ax, Sx, nnz, row_i, x,
                   cljpVars, ipVars, B, indices, thetacs, cr_iter>>

\* lines 727-735: the positions of Uindex whose omega passes the test
\* omega[pt] > max_weight at its turn, the last of which gives new_pt
RECURSIVE MaxScan(_, _, _)
MaxScan(q, max_weight, new_pt) ==
    IF q > Len(Uindex) THEN new_pt
    ELSE IF omega[Uindex[q]] > max_weight
         THEN MaxScan(q + 1, omega[Uindex[q]], Uindex[q])
         ELSE MaxScan(q + 1, max_weight, new_pt)

NewPt == MaxScan(1, 0, -1)

\* lines 746-752: the columns of row p
RowCols(p) == {Aj[d] : d \in Ap[p]..(Ap[p + 1] - 1)}

\* lines 757-767: how often omega[t] += 1 runs for node t, were it not zero
BumpCount(p, t) ==
    Cardinality({dd \in (Ap[p]..(Ap[p + 1] - 1)) \X DOMAIN Aj :
                    /\ dd[2] \in Ap[Aj[dd[1]]]..(Ap[Aj[dd[1]] + 1] - 1)
                    /\ Aj[dd[2]] = t})

\* lines 746-767: omega after steps 2 and 3 for the new C point p
OmegaAfter(p) ==
    [t \in Nodes |->
        IF t \in RowCols(p) \/ omega[t] = 0 THEN 0
        ELSE omega[t] + inf_norm * BumpCount(p, t)]

\* lines 725-768: one pass of the loop that finds a point.  A run that has
\* made more passes than Uindex has points is not followed further.
CrPick ==
    /\ prog = "cr" /\ pc = "greedy"
    /\ NewPt >= 0
    /\ cr_iter <= Len(Uindex)
    /\ cr_iter' = cr_iter + 1
    /\ splitting' = [splitting EXCEPT ![NewPt] = 1]
    /\ gamma' = [gamma EXCEPT ![NewPt] = 0]
    /\ omega' = OmegaAfter(NewPt)
    /\ UNCHANGED <<prog, pc, n_nodes, Sp, Sj, Tp, Tj, rsWork, oob, socVars, cljpVars, ipVars,
                   B, e_vec, indices, thetacs, inf_norm, Uindex>>

\* lines 736-739: no point has a positive weight, the loop is left
CrBreak ==
    /\ prog = "cr" /\ pc = "greedy"
    /\ NewPt < 0
    /\ pc' = "reorder"
    /\ UNCHANGED <<prog, rsVars, socVars, extVars>>

\* lines 775 and 783-784: the position the r-th C point (r = 0, 1, ...) gets.
CPosForward(r) == Cardinality({i \in Nodes : splitting[i] = 0}) + 1 + r

\* lines 775 and 783-784: the position the r-th C point (r = 0, 1, ...) gets
CPos(r) == n_nodes - r

\* lines 773-786
CrReorder ==
    /\ prog = "cr" /\ pc = "reorder"
    /\ LET Fs == Asc({i \in Nodes : splitting[i] = 0})
           Cs == Asc({i \in Nodes : splitting[i] # 0})
       IN  indices' =
               [q \in DOMAIN indices |->
                   IF q = 0 THEN Len(Fs)
                   ELSE IF q <= Len(Fs) THEN Fs[q]
                   ELSE IF \E r \in 0..(Len(Cs) - 1) : CPos(r) = q
                        THEN Cs[(CHOOSE r \in 0..(Len(Cs) - 1) : CPos(r) = q) + 1]
                        ELSE indices[q]]
    /\ pc' = "done"
    /\ UNCHANGED <<prog, rsVars, socVars, cljpVars, ipVars,
                   B, e_vec, gamma, thetacs, inf_norm, Uindex, omega, cr_iter>>

\* The array indices for a splitting sp: the count of F points, the F
\* points, then the C points from the largest to the smallest.
IndicesOf(n, sp) ==
    LET Fs == Asc({i \in 0..(n - 1) : sp[i] = 0})
        Cs == Asc({i \in 0..(n - 1) : sp[i] # 0})
    IN  [q \in 0..n |->
            IF q = 0 THEN Len(Fs)
            ELSE IF q <= Len(Fs) THEN Fs[q]
            ELSE Cs[n - q + 1]]

\* The state at entry with the pattern P of A on n nodes.
CrEntry(n, P, sp, ev, bv, t) ==
    /\ prog = "cr" /\ pc = "start"
    /\ n_nodes = n
    /\ Ap = CsrP(P, n)
    /\ Aj = CsrJ(P)
    /\ splitting = sp
    /\ e_vec = ev
    /\ B = bv
    /\ thetacs = t
    /\ indices = IndicesOf(n, sp)
    /\ gamma = Zero(n)
    /\ inf_norm = 0 /\ Uindex = <<>> /\ omega = Zero(n) /\ cr_iter = 0
    /\ Sp = Zero(1) /\ Sj = Zero(0) /\ Tp = Zero(1) /\ Tj = Zero(0)
    /\ RsWorkIdle /\ oob = FALSE
    /\ n_row = 0 /\ theta = 0 /\ Ax = Zero(0)
    /\ Sx = Zero(0) /\ nnz = 0 /\ row_i = 0 /\ x = Zero(0)
    /\ CljpIdle /\ IpIdle

InitCR ==
    \E n \in 0..CrN : \E P \in SUBSET Cells(n) :
        /\ Cardinality(P) <= CrNnz
        /\ \E sp \in [0..(n - 1) -> {0, 1}] :
           \* e is read at the F points only; e is nonzero there, or zero at all
           \E ef \in [{i \in 0..(n - 1) : sp[i] = 0} -> CrEVals]
                        \cup {[i \in {i \in 0..(n - 1) : sp[i] = 0} |-> 0]} :
           \E t \in {0, 1} :
               CrEntry(n, P, sp, [i \in 0..(n - 1) |-> IF sp[i] = 0 THEN ef[i] ELSE 0],
                       CrB(n), t)

NextCR == CrMeasure \/ CrPick \/ CrBreak \/ CrReorder

SpecCR == InitCR /\ [][NextCR]_vars

(***************************************************************************)
(* The interpolation kernels: rs_direct_interpolation_pass1/2 (lines       *)
(* 541-640), rs_standard_interpolation_pass1/2 (812-999),                  *)
(* mod_standard_interpolation_pass2 (1121-1255),                           *)
(* distance_two_amg_interpolation_pass1 (1280-1319),                       *)
(* extended_plusi_interpolation_pass2 (1363-1783) and                      *)
(* extended_interpolation_pass2 (1822-2126).                               *)
(* Sp, Sj, Sx hold the strength matrix (C_rowptr, C_colinds, C_data) with  *)
(* the values of A; P_rowptr, P_colinds, P_data are Bp, Bj, Bx in the      *)
(* direct kernel.  P_colinds and P_data have the length pass 1 returned    *)
(* in P_rowptr[n_nodes]; -1 in P_rowptr or P_colinds and Unset in P_data   *)
(* stand for an element nothing was stored in yet.                         *)
(* The type T is held as an exact fraction [n, d] in lowest terms with     *)
(* d > 0; d = 0 holds +infinity (n = 1), -infinity (n = -1) and NaN        *)
(* (n = 0).  Rounding is not modelled.                                     *)
(***************************************************************************)
IpProgs == {"direct", "standard", "mod_standard", "ext_plusi", "ext"}

Sgn(v) == IF v < 0 THEN -1 ELSE IF v > 0 THEN 1 ELSE 0

RECURSIVE Gcd(_, _)
Gcd(a, b) == IF b = 0 THEN a ELSE Gcd(b, a % b)

\* the fraction n/d as a value of T
Q(n, d) ==
    IF d = 0 THEN [n |-> Sgn(n), d |-> 0]
    ELSE LET g == Gcd(Abs(n), Abs(d))
         IN  [n |-> (Sgn(d) * n) \div g, d |-> Abs(d) \div g]

QInt(v) == [n |-> v, d |-> 1]

QNaN == [n |-> 0, d |-> 0]

Unset == [n |-> 0, d |-> -1]

\* QNeg that keeps the sign.
QNegKeepsSign(a) == [n |-> a.n, d |-> a.d]

\* -a
QNeg(a) == [n |-> -a.n, d |-> a.d]

QAdd(a, b) ==
    IF a.d = 0 /\ b.d = 0 THEN (IF a.n = b.n THEN a ELSE QNaN)
    ELSE IF a.d = 0 THEN a
    ELSE IF b.d = 0 THEN b
    ELSE Q(a.n * b.d + b.n * a.d, a.d * b.d)

QMul(a, b) == Q(a.n * b.n, a.d * b.d)

\* 1/a; every divisor of the kernels is a sum that started from +0, so a
\* zero divisor is +0
QInv(a) ==
    IF a.d = 0 THEN (IF a.n = 0 THEN QNaN ELSE QInt(0))
    ELSE Q(a.d, a.n)

QDiv(a, b) == QMul(a, QInv(b))

RECURSIVE QSum(_)
QSum(s) == IF s = <<>> THEN QInt(0) ELSE QAdd(Head(s), QSum(Tail(s)))

RECURSIVE IntSum(_)
IntSum(s) == IF s = <<>> THEN 0 ELSE Head(s) + IntSum(Tail(s))

\* the search loops over row k of A: the value stored at column j, 0 when
\* the row stores none
AEntry(k, j) ==
    LET es == {e \in Ap[k]..(Ap[k + 1] - 1) : Aj[e] = j}
    IN  IF es = {} THEN 0 ELSE Ax[SetMin(es)]

\* the entries of row i of the strength matrix, in storage order
CRow(i) == RowSeq(Sp, i)

\* IsStrongC without the test of the colour.
IsStrongAny(i, e) == Sj[e] # i

\* lines 555, 585, 619, 827: a strong C neighbour other than i itself
IsStrongC(i, e) == splitting[Sj[e]] = C_NODE /\ Sj[e] # i

\* lines 933, 1174, 1391, 1533: a strong F neighbour other than i itself
IsStrongF(i, e) == splitting[Sj[e]] = F_NODE /\ Sj[e] # i

\* the entries of row i that satisfy IsStrongF
StrongF(i) == SelectSeq(CRow(i), LAMBDA e : IsStrongF(i, e))

(***************************************************************************)
(* Pass 1: the number of entries each row of P gets.                       *)
(***************************************************************************)
\* lines 551-558, with the test of line 555 dropped to the colour alone
DirectCountAnyC(i) ==
    IF splitting[i] = C_NODE THEN 1
    ELSE Len(SelectSeq(CRow(i), LAMBDA e : TRUE))

\* lines 551-558
DirectCount(i) ==
    IF splitting[i] = C_NODE THEN 1
    ELSE Len(SelectSeq(CRow(i), LAMBDA e : IsStrongC(i, e)))

\* lines 822-830
StandardCount(i) ==
    IF splitting[i] = C_NODE THEN 1
    ELSE Len(SelectSeq(CRow(i), LAMBDA e : IsStrongC(i, e)))

\* lines 1304-1311: what entry e of row i adds to nnz
D2CountAt(i, e) ==
    IF splitting[Sj[e]] = C_NODE THEN 1
    ELSE IF Sj[e] # i
         THEN Len(SelectSeq(CRow(Sj[e]), LAMBDA f : splitting[Sj[f]] = C_NODE))
         ELSE 0

\* lines 1291-1314
D2Count(i) ==
    IF splitting[i] = C_NODE THEN 1
    ELSE IntSum([q \in 1..Len(CRow(i)) |-> D2CountAt(i, CRow(i)[q])])

\* the pass 1 that goes with each pass 2
RowCount(i) ==
    CASE prog = "direct" -> DirectCount(i)
      [] prog \in {"standard", "mod_standard"} -> StandardCount(i)
      [] prog \in {"ext_plusi", "ext"} -> D2Count(i)

\* lines 548-560, 819-832, 1287-1318: the running count nnz
RowPtr == [i \in 0..n_nodes |-> IntSum([q \in 1..i |-> RowCount(q - 1)])]

\* Pass 1; the caller then sizes P_colinds and P_data by P_rowptr[n_nodes].
IpPass1 ==
    /\ prog \in IpProgs /\ pc = "pass1"
    /\ P_rowptr' = RowPtr
    /\ LET len == RowPtr[n_nodes]
       IN  /\ P_colinds' = [e \in 0..(len - 1) |-> -1]
           /\ P_data' = [e \in 0..(len - 1) |-> Unset]
           /\ stores' = Zero(len)
    /\ row_i' = 0
    /\ pc' = IF 0 < n_nodes THEN "rows" ELSE "reindex"
    /\ UNCHANGED <<prog, n_nodes, Sp, Sj, Tp, Tj, splitting, rsWork, oob,
                   n_row, theta, Ap, Aj, Ax, Sx, nnz, x, cljpVars, crVars>>

(***************************************************************************)
(* Pass 2, direct interpolation (lines 583-627).                           *)
(***************************************************************************)
\* Coeff without the division by the diagonal.
CoeffNoDiagonal(scale, diag) == QNeg(scale)

\* lines 614-615: -alpha/diag and -beta/diag
Coeff(scale, diag) == QDiv(QNeg(scale), QInt(diag))

\* lines 583-627: the entries of the F row i, in the order they are stored
DirectSlots(i) ==
    LET strong == SelectSeq(CRow(i), LAMBDA e : IsStrongC(i, e))
        arow == RowSeq(Ap, i)
        sum_strong_neg ==
            IntSum([q \in 1..Len(strong) |->
                        IF Sx[strong[q]] < 0 THEN Sx[strong[q]] ELSE 0])
        sum_strong_pos ==
            IntSum([q \in 1..Len(strong) |->
                        IF Sx[strong[q]] < 0 THEN 0 ELSE Sx[strong[q]]])
        diag0 ==
            IntSum([q \in 1..Len(arow) |->
                        IF Aj[arow[q]] = i THEN Ax[arow[q]] ELSE 0])
        sum_all_neg ==
            IntSum([q \in 1..Len(arow) |->
                        IF Aj[arow[q]] # i /\ Ax[arow[q]] < 0 THEN Ax[arow[q]] ELSE 0])
        sum_all_pos ==
            IntSum([q \in 1..Len(arow) |->
                        IF Aj[arow[q]] # i /\ ~(Ax[arow[q]] < 0) THEN Ax[arow[q]] ELSE 0])
        alpha == QDiv(QInt(sum_all_neg), QInt(sum_strong_neg))
        beta == IF sum_strong_pos = 0 THEN QInt(0)
                ELSE QDiv(QInt(sum_all_pos), QInt(sum_strong_pos))
        diag == IF sum_strong_pos = 0 THEN diag0 + sum_all_pos ELSE diag0
        neg_coeff == Coeff(alpha, diag)
        pos_coeff == Coeff(beta, diag)
    IN  [q \in 1..Len(strong) |->
            [col |-> Sj[strong[q]],
             val |-> QMul(IF Sx[strong[q]] < 0 THEN neg_coeff ELSE pos_coeff,
                          QInt(Sx[strong[q]]))]]

(***************************************************************************)
(* Pass 2, standard and modified standard interpolation (lines 902-985,    *)
(* 1143-1245).                                                             *)
(***************************************************************************)
\* lines 905-915: the row sum of A less the strong off-diagonal entries
StdDenominator(i) ==
    IntSum([q \in 1..Len(RowSeq(Ap, i)) |-> Ax[RowSeq(Ap, i)[q]]])
    - IntSum([q \in 1..Len(CRow(i)) |->
                 IF Sj[CRow(i)[q]] # i THEN Sx[CRow(i)[q]] ELSE 0])

\* lines 1195-1197, 1449-1451, 1553-1555: a_kj, zeroed when its sign is
\* that of a_kk.  The values of A are integers, so std::abs(a_kj) > 1e-16
\* is a_kj # 0.
SignFiltered(k, j) ==
    IF Sgn(AEntry(k, j)) = Sgn(AEntry(k, k)) THEN 0 ELSE AEntry(k, j)

\* lines 1216-1218: a_kl counts when its sign is not that of a_kk
OppositeSign(k, l) ==
    IF Sgn(AEntry(k, l)) # Sgn(AEntry(k, k)) THEN AEntry(k, l) ELSE 0

\* lines 953-967 and 1204-1223: the inner denominator for the F neighbour k
StdInner(i, k, modified) ==
    IntSum([q \in 1..Len(CRow(i)) |->
                IF splitting[Sj[CRow(i)[q]]] = C_NODE
                THEN (IF modified THEN OppositeSign(k, Sj[CRow(i)[q]])
                      ELSE AEntry(k, Sj[CRow(i)[q]]))
                ELSE 0])

\* lines 929-976 and 1170-1232: the numerator for the entry e of row i
StdNumerator(i, e, modified) ==
    LET sf == StrongF(i)
        a_kj(k) == IF modified THEN SignFiltered(k, Sj[e]) ELSE AEntry(k, Sj[e])
    IN  QAdd(QInt(Sx[e]),
             QSum([q \in 1..Len(sf) |->
                      IF a_kj(Sj[sf[q]]) # 0
                      THEN QDiv(QInt(Sx[sf[q]] * a_kj(Sj[sf[q]])),
                                QInt(StdInner(i, Sj[sf[q]], modified)))
                      ELSE QInt(0)]))

\* lines 918-985 and 1159-1241: the entries of the F row i
StdSlots(i, modified) ==
    LET cs == SelectSeq(CRow(i), LAMBDA e : splitting[Sj[e]] = C_NODE)
    IN  [q \in 1..Len(cs) |->
            [col |-> Sj[cs[q]],
             val |-> QDiv(QNeg(StdNumerator(i, cs[q], modified)),
                          QInt(StdDenominator(i)))]]

(***************************************************************************)
(* Pass 2, extended+i and extended interpolation (lines 1382-1770,         *)
(* 1840-2113).                                                             *)
(***************************************************************************)
\* the C points entry e of row i leads to: the neighbour itself when it is
\* a C point, the C points of its row when it is an F point other than i
PointsAt(i, e) ==
    IF splitting[Sj[e]] = C_NODE THEN <<Sj[e]>>
    ELSE IF Sj[e] # i
         THEN LET cs == SelectSeq(CRow(Sj[e]), LAMBDA f : splitting[Sj[f]] = C_NODE)
              IN  [q \in 1..Len(cs) |-> Sj[cs[q]]]
         ELSE <<>>

\* lines 1461-1498, 1564-1604: the distance-one and distance-two C points
\* of row i, in the order the loops visit them
ExtPoints(i) == Concat([q \in 1..Len(CRow(i)) |-> PointsAt(i, CRow(i)[q])])

\* lines 1391-1407: the distance-two C points reached through the strong F
\* neighbours of i
D2Points(i) ==
    Concat([q \in 1..Len(CRow(i)) |->
               IF IsStrongF(i, CRow(i)[q]) THEN PointsAt(i, CRow(i)[q]) ELSE <<>>])

\* lines 1459-1502, 1563-1617: the inner denominator for the F neighbour k
ExtInner(i, k, plusi) ==
    IntSum([q \in 1..Len(ExtPoints(i)) |-> OppositeSign(k, ExtPoints(i)[q])])
    + (IF plusi THEN SignFiltered(k, i) ELSE 0)

\* lines 1428-1510: what the strong F neighbours add to the denominator of
\* extended+i
PlusITerm(i) ==
    LET sf == StrongF(i)
    IN  QSum([q \in 1..Len(sf) |->
                 IF SignFiltered(Sj[sf[q]], i) # 0
                 THEN QDiv(QInt(Sx[sf[q]] * SignFiltered(Sj[sf[q]], i)),
                           QInt(ExtInner(i, Sj[sf[q]], TRUE)))
                 ELSE QInt(0)])

\* lines 1383-1410: the row sum of A, less the strong off-diagonal entries,
\* less a_im for each distance-two C point m each time the loops reach it
ExtRowPart(i) ==
    StdDenominator(i)
    - IntSum([q \in 1..Len(D2Points(i)) |-> AEntry(i, D2Points(i)[q])])

\* lines 1382-1510 and 1840-1883
ExtDenominator(i, plusi) ==
    IF plusi THEN QAdd(QInt(ExtRowPart(i)), PlusITerm(i)) ELSE QInt(ExtRowPart(i))

\* lines 1529-1626, 1650-1755: the numerator for the C point j, a_ij given
ExtNumerator(i, j, a_ij, plusi) ==
    LET sf == StrongF(i)
    IN  QAdd(QInt(a_ij),
             QSum([q \in 1..Len(sf) |->
                      IF SignFiltered(Sj[sf[q]], j) # 0
                      THEN QDiv(QInt(Sx[sf[q]] * SignFiltered(Sj[sf[q]], j)),
                                QInt(ExtInner(i, Sj[sf[q]], plusi)))
                      ELSE QInt(0)]))

\* the entry of P for the C point j
ExtSlot(i, j, a_ij, plusi) ==
    [col |-> j,
     val |-> QDiv(QNeg(ExtNumerator(i, j, a_ij, plusi)), ExtDenominator(i, plusi))]

\* lines 1522-1634 and 1637-1766: the entries of P that entry e of row i
\* gives
ExtSlotsAt(i, e, plusi) ==
    IF splitting[Sj[e]] = C_NODE THEN <<ExtSlot(i, Sj[e], Sx[e], plusi)>>
    ELSE IF Sj[e] # i
         THEN [q \in 1..Len(PointsAt(i, e)) |->
                  ExtSlot(i, PointsAt(i, e)[q], AEntry(i, PointsAt(i, e)[q]), plusi)]
         ELSE <<>>

\* lines 1516-1768 and 1886-2111: the entries of the F row i
ExtSlots(i, plusi) ==
    Concat([q \in 1..Len(CRow(i)) |-> ExtSlotsAt(i, CRow(i)[q], plusi)])

(***************************************************************************)
(* Pass 2, the loop over the rows and the re-indexing of the columns.      *)
(***************************************************************************)
\* the entries pass 2 stores for the F row i
FSlots(i) ==
    CASE prog = "direct" -> DirectSlots(i)
      [] prog = "standard" -> StdSlots(i, FALSE)
      [] prog = "mod_standard" -> StdSlots(i, TRUE)
      [] prog = "ext_plusi" -> ExtSlots(i, TRUE)
      [] prog = "ext" -> ExtSlots(i, FALSE)

\* lines 580-581, 895-896: the entry of the C row i
CSlots(i) == <<[col |-> i, val |-> QInt(1)]>>

\* the slots row i is stored in, from P_rowptr[i] on
SlotOf(i, q) == P_rowptr[i] + q - 1

\* what the array holds after the q-th value of sl is stored at SlotOf(i, q)
StoreAll(arr, i, sl) ==
    [e \in DOMAIN arr |->
        LET qs == {q \in 1..Len(sl) : SlotOf(i, q) = e}
        IN  IF qs = {} THEN arr[e] ELSE sl[SetMax(qs)]]

\* lines 578-629: one row of pass 2
IpRow ==
    /\ prog \in IpProgs /\ pc = "rows" /\ row_i < n_nodes
    /\ LET sl == IF splitting[row_i] = C_NODE THEN CSlots(row_i) ELSE FSlots(row_i)
       IN  /\ P_colinds' = StoreAll(P_colinds, row_i, [q \in 1..Len(sl) |-> sl[q].col])
           /\ P_data' = StoreAll(P_data, row_i, [q \in 1..Len(sl) |-> sl[q].val])
           /\ stores' = [e \in DOMAIN stores |->
                            stores[e] + Cardinality({q \in 1..Len(sl) : SlotOf(row_i, q) = e})]
           /\ oob' = (oob \/ \E q \in 1..Len(sl) : SlotOf(row_i, q) \notin DOMAIN P_colinds)
    /\ row_i' = row_i + 1
    /\ pc' = IF row_i + 1 < n_nodes THEN "rows" ELSE "reindex"
    /\ UNCHANGED <<prog, n_nodes, Sp, Sj, Tp, Tj, splitting, rsWork,
                   n_row, theta, Ap, Aj, Ax, Sx, nnz, x, cljpVars, crVars,
                   P_rowptr>>

\* lines 632-636: map[i], the number of C points before i
CoarseIndexCountingSelf(i) == IntSum([q \in 1..(i + 1) |-> splitting[q - 1]])

\* lines 632-636: map[i], the sum of splitting over the nodes before i
CoarseIndex(i) == IntSum([q \in 1..i |-> splitting[q - 1]])

\* lines 637-639: the columns become coarse indices.  A slot that holds no
\* node reads map outside its bounds and may end with any value.
IpReindex ==
    /\ prog \in IpProgs /\ pc = "reindex"
    /\ IF \A e \in DOMAIN P_colinds : P_colinds[e] \in Nodes
       THEN P_colinds' = [e \in DOMAIN P_colinds |-> CoarseIndex(P_colinds[e])]
       ELSE \E junk \in [DOMAIN P_colinds -> -1..n_nodes] :
                P_colinds' = [e \in DOMAIN P_colinds |->
                                 IF P_colinds[e] \in Nodes THEN CoarseIndex(P_colinds[e])
                                 ELSE junk[e]]
    /\ oob' = (oob \/ \E e \in DOMAIN P_colinds : P_colinds[e] \notin Nodes)
    /\ pc' = "done"
    /\ UNCHANGED <<prog, n_nodes, Sp, Sj, Tp, Tj, splitting, rsWork,
                   n_row, theta, Ap, Aj, Ax, Sx, nnz, row_i, x, cljpVars, crVars,
                   P_rowptr, P_data, stores>>

(***************************************************************************)
(* The inputs of the interpolation kernels.                                *)
(***************************************************************************)
IpKinds == {"strong", "dense", "mixed"}

\* the off-diagonal cells of an n by n pattern
OffCells(n) == {c \in Cells(n) : c[1] # c[2]}

Diagonal(n) == {<<i, i>> : i \in 0..(n - 1)}

\* the pattern of A: the strong entries and the diagonal, or every cell
APattern(kind, n, S) == IF kind = "strong" THEN S \cup Diagonal(n) ELSE Cells(n)

\* the values of A: diagonal 2; off the diagonal -1, or 1 above the
\* diagonal and -1 below it
AValue(kind, c) ==
    IF c[1] = c[2] THEN 2
    ELSE IF kind = "mixed" /\ c[2] > c[1] THEN 1 ELSE -1

\* the cells of the pattern P in storage order: by row, a row by column
CellSeq(P) ==
    LET rows == Asc({p[1] : p \in P})
    IN  Concat([r \in 1..Len(rows) |->
                   LET cols == Asc({p[2] : p \in {q \in P : q[1] = rows[r]}})
                   IN  [c \in 1..Len(cols) |-> <<rows[r], cols[c]>>]])

\* the CSR arrays of the pattern P on n nodes with the values of kind
Csr(P, n, kind) ==
    LET cs == CellSeq(P)
    IN  [p |-> CsrP(P, n),
         j |-> [e \in 0..(Len(cs) - 1) |-> cs[e + 1][2]],
         x |-> [e \in 0..(Len(cs) - 1) |-> AValue(kind, cs[e + 1])]]

\* The state at entry: the CSR arrays A of the matrix and S of its strength
\* matrix on n nodes.
IpEntry(k, n, A, S, sp) ==
    /\ prog = k /\ pc = "pass1"
    /\ n_nodes = n
    /\ Ap = A.p /\ Aj = A.j /\ Ax = A.x
    /\ Sp = S.p /\ Sj = S.j /\ Sx = S.x
    /\ splitting = sp
    /\ P_rowptr = [e \in 0..n |-> -1]
    /\ P_colinds = Zero(0) /\ P_data = Zero(0) /\ stores = Zero(0)
    /\ Tp = Zero(1) /\ Tj = Zero(0)
    /\ RsWorkIdle /\ oob = FALSE
    /\ n_row = 0 /\ theta = 0 /\ nnz = 0 /\ row_i = 0 /\ x = Zero(0)
    /\ CljpIdle /\ CrIdle

\* Strength patterns in which node 0 reaches a node both directly and
\* through node 1 (a triangle), and reaches node 3 through nodes 1 and 2.
SharedC ==
    {[n |-> 3, S |-> {<<0, 1>>, <<0, 2>>, <<1, 2>>}],
     [n |-> 4, S |-> {<<0, 1>>, <<0, 2>>, <<1, 3>>, <<2, 3>>}]}

\* Patterns on 0..IpN nodes with at most IpNnz strong off-diagonal
\* entries, with or without the diagonal in S; scenario S2, the 5-node
\* Laplacian with S = A, under every splitting; and the patterns of SharedC.
InitIP ==
    \/ \E n \in 0..IpN : \E O \in SUBSET OffCells(n) :
           /\ Cardinality(O) <= IpNnz
           /\ \E sdiag \in BOOLEAN : \E kind \in IpKinds :
                  LET S == IF sdiag THEN O \cup Diagonal(n) ELSE O
                      A == Csr(APattern(kind, n, S), n, kind)
                      C == Csr(S, n, kind)
                  IN  \E sp \in [0..(n - 1) -> {F_NODE, C_NODE}] : \E k \in IpProgs :
                          IpEntry(k, n, A, C, sp)
    \/ LET A == Csr(Laplacian5, 5, "strong")
       IN  \E sp \in [0..4 -> {F_NODE, C_NODE}] : \E k \in IpProgs :
               IpEntry(k, 5, A, A, sp)
    \/ \E G \in SharedC : \E kind \in IpKinds :
           LET A == Csr(APattern(kind, G.n, G.S), G.n, kind)
               C == Csr(G.S, G.n, kind)
           IN  \E sp \in [0..(G.n - 1) -> {F_NODE, C_NODE}] : \E k \in IpProgs :
                   IpEntry(k, G.n, A, C, sp)

NextIP == IpPass1 \/ IpRow \/ IpReindex

SpecIP == InitIP /\ [][NextIP]_vars

(***************************************************************************)
(* remove_strong_FF_connections (lines 1025-1073).  Sp, Sj and Sx hold     *)
(* C_rowptr, C_colinds and C_data.                                         *)
(***************************************************************************)
\* Dependence without the test of line 1044.
DependenceAnyNode(row, j) ==
    \E ii \in Sp[row]..(Sp[row + 1] - 1) :
        \E k \in Sp[j]..(Sp[j + 1] - 1) : Sj[k] = Sj[ii]

\* lines 1041-1054: the flag dependence after the loop over ii
Dependence(row, j) ==
    \E ii \in Sp[row]..(Sp[row + 1] - 1) :
        /\ splitting[Sj[ii]] = C_NODE
        /\ \E k \in Sp[j]..(Sp[j + 1] - 1) : Sj[k] = Sj[ii]

\* lines 1032-1070: the entry at position jj = e of row `row` is set to 0
Removed(row, e) ==
    /\ splitting[row] = F_NODE
    /\ splitting[Sj[e]] = F_NODE
    /\ ~Dependence(row, Sj[e])

\* lines 1031-1071: one pass of the loop over row
FfRow ==
    /\ prog = "remove_ff" /\ pc = "rows"
    /\ row_i < n_nodes
    /\ Sx' = [e \in DOMAIN Sx |->
                 IF Sp[row_i] <= e /\ e < Sp[row_i + 1] /\ Removed(row_i, e)
                 THEN 0 ELSE Sx[e]]
    /\ row_i' = row_i + 1
    /\ UNCHANGED <<prog, pc, n_nodes, Sp, Sj, Tp, Tj, splitting, rsWork, oob, n_row,
                   theta, Ap, Aj, Ax, nnz, x, extVars>>

\* line 1031: the loop over row is left
FfReturn ==
    /\ prog = "remove_ff" /\ pc = "rows"
    /\ ~(row_i < n_nodes)
    /\ pc' = "done"
    /\ UNCHANGED <<prog, rsVars, socVars, extVars>>

\* The state at entry: the strength matrix with the pattern P on n nodes;
\* its values are 1, 2, ... in storage order, less z.
FfEntry(n, P, sp, z) ==
    /\ prog = "remove_ff" /\ pc = "rows"
    /\ n_nodes = n
    /\ Sp = CsrP(P, n)
    /\ Sj = Csr(P, n, "strong").j
    /\ Sx = [e \in 0..(Cardinality(P) - 1) |-> e + 1 - z]
    /\ splitting = sp
    /\ row_i = 0
    /\ Tp = Zero(1) /\ Tj = Zero(0)
    /\ RsWorkIdle /\ oob = FALSE
    /\ n_row = 0 /\ theta = 0 /\ nnz = 0 /\ x = Zero(0)
    /\ Ap = Zero(1) /\ Aj = Zero(0) /\ Ax = Zero(0)
    /\ ExtIdle

\* Patterns on 0..FfN nodes with at most FfNnz entries, the diagonal among
\* the cells, under every splitting; all values non-zero, or the first
\* stored value an explicit zero.
InitFF ==
    \E n \in 0..FfN : \E P \in SUBSET Cells(n) :
        /\ Cardinality(P) <= FfNnz
        /\ \E sp \in [0..(n - 1) -> {F_NODE, C_NODE}] : \E z \in {0, 1} :
               FfEntry(n, P, sp, z)

NextFF == FfRow \/ FfReturn

SpecFF == InitFF /\ [][NextFF]_vars

Init == InitRS \/ InitSOC \/ InitCLJP \/ InitCR \/ InitIP \/ InitFF

Next == NextRS \/ NextSOC \/ NextCLJP \/ NextCR \/ NextIP \/ NextFF

Spec == Init /\ [][Next]_vars
(***************************************************************************)
(* Properties of the strength kernels and of maximum_row_value.            *)
(***************************************************************************)
OffEntries(i) == {e \in RowEntries(i) : Aj[e] # i}

DiagEntries(i) == {e \in RowEntries(i) : Aj[e] = i}

SRowEntries(i) == Sp[i]..(Sp[i + 1] - 1)

\* (i, j) is an entry of S
InS(i, j) == \E d \in SRowEntries(i) : Sj[d] = j

SocReturned == prog \in {"soc_abs", "soc_min"} /\ pc = "done"

\* C6: classical_strength_of_connection_abs copies an off-diagonal entry
\* (i,j) to S iff |A[i,j]| >= theta * m_i, m_i the largest |A[i,k]| over the
\* stored off-diagonals of row i (m_i = 0 when they are all zero).
C6_AbsStrongIff ==
    (prog = "soc_abs" /\ pc = "done") =>
        \A i \in Rows : \A e \in OffEntries(i) :
            InS(i, Aj[e]) <=>
                Abs(Ax[e]) * ThetaDen >=
                    theta * SetMax({Abs(Ax[d]) : d \in OffEntries(i)})

\* C7: both strength kernels copy every stored diagonal entry to row i of S
\* exactly once, with its value, so such a row of S has at least one entry.
C7_DiagonalKept ==
    SocReturned =>
        \A i \in Rows : \A e \in DiagEntries(i) :
            /\ Cardinality({d \in SRowEntries(i) : Sj[d] = i}) = 1
            /\ \A d \in SRowEntries(i) : Sj[d] = i => Sx[d] = Ax[e]
            /\ Sp[i + 1] - Sp[i] >= 1

\* A returned run of the abs kernel with a diagonal below the threshold of
\* its row, in a row that lost an off-diagonal.
C7_Witness ==
    /\ prog = "soc_abs" /\ pc = "done"
    /\ \E i \in Rows : \E e \in DiagEntries(i) :
          /\ ~GeThreshold(mynorm(Ax[e]), MaxOffdiagonalAbs(i))
          /\ Sp[i + 1] - Sp[i] < Ap[i + 1] - Ap[i]
          /\ InS(i, i)

AllNonzero == \A e \in DOMAIN Ax : Ax[e] # 0

\* C8: at theta = 0, for A with all stored values non-zero, both strength
\* kernels return S with the sparsity of A: Sp = Ap and Sj = Aj.
C8_ThetaZeroSamePattern ==
    (SocReturned /\ theta = 0 /\ AllNonzero) => (Sp = Ap /\ Sj = Aj)

\* C8 as amended: at theta = 0, for A with all stored values non-zero, the
\* abs kernel returns S with the sparsity of A; the min kernel does so
\* exactly when no stored off-diagonal is positive.
C8_ThetaZeroAmended ==
    (SocReturned /\ theta = 0 /\ AllNonzero) =>
        /\ prog = "soc_abs" => (Sp = Ap /\ Sj = Aj)
        /\ prog = "soc_min" =>
              ((Sp = Ap /\ Sj = Aj) <=>
                  \A i \in Rows : \A e \in OffEntries(i) : Ax[e] < 0)

\* A returned run of the min kernel at theta = 0 on a row with a positive
\* diagonal and two negative off-diagonals of different size.
C8_Witness ==
    /\ prog = "soc_min" /\ pc = "done" /\ theta = 0 /\ AllNonzero
    /\ Sp = Ap /\ Sj = Aj
    /\ \E i \in Rows :
          /\ \E e \in DiagEntries(i) : Ax[e] > 0
          /\ \E e, d \in OffEntries(i) : Ax[e] < Ax[d] /\ Ax[d] < 0

\* C9: classical_strength_of_connection_min copies an off-diagonal entry
\* (i,j) to S iff -A[i,j] >= theta * max over the stored off-diagonals of
\* row i of -A[i,k], a maximum that is negative when all are positive.
C9_MinStrongIff ==
    (prog = "soc_min" /\ pc = "done") =>
        \A i \in Rows : \A e \in OffEntries(i) :
            InS(i, Aj[e]) <=>
                (-Ax[e]) * ThetaDen >=
                    theta * SetMax({-Ax[d] : d \in OffEntries(i)})

\* C9 as amended: the entry is copied iff -A[i,j] >= theta * max(0, max
\* over the stored off-diagonals of row i of -A[i,k]).
C9_MinStrongIffClamped ==
    (prog = "soc_min" /\ pc = "done") =>
        \A i \in Rows : \A e \in OffEntries(i) :
            InS(i, Aj[e]) <=>
                (-Ax[e]) * ThetaDen >=
                    theta * SetMax({0} \cup {-Ax[d] : d \in OffEntries(i)})

\* A returned run of the min kernel with theta > 0: one row has only
\* positive off-diagonals and keeps none, another entry of a row with
\* negative and positive off-diagonals is kept.
C9_Witness ==
    /\ prog = "soc_min" /\ pc = "done" /\ theta > 0
    /\ \E i \in Rows :
          /\ OffEntries(i) # {}
          /\ \A e \in OffEntries(i) : Ax[e] > 0 /\ ~InS(i, Aj[e])
    /\ \E i \in Rows : \E e, d \in OffEntries(i) :
          Ax[e] < 0 /\ Ax[d] > 0 /\ InS(i, Aj[e])

\* C10: maximum_row_value sets x[i], for a row with a stored entry, to the
\* largest |A[i,j]| over the stored entries of the row (0 when all are 0).
C10_MaxRowValue ==
    (prog = "max_row" /\ pc = "done") =>
        \A i \in Rows :
            RowEntries(i) # {} =>
                x[i] = Unit * SetMax({Abs(Ax[e]) : e \in RowEntries(i)})

(***************************************************************************)
(* Properties of cljp_naive_splitting.                                     *)
(***************************************************************************)
\* the number of entries j # i stored in row i of the CSR matrix (ptr, ind)
OffDiagCount(ptr, ind, i) == Cardinality({e \in ptr[i]..(ptr[i + 1] - 1) : ind[e] # i})

\* i and j are connected in S or in S transposed
Adjacent(i, j) ==
    \/ \E e \in Sp[i]..(Sp[i + 1] - 1) : Sj[e] = j
    \/ \E e \in Tp[i]..(Tp[i + 1] - 1) : Tj[e] = j

BeforeFirstRound == prog = "cljp" /\ pc = "round" /\ pass = 0

\* the selection of a round has just been made
JustSelected == prog = "cljp" /\ pc = "P5"

\* j was U when the selection of this round was made
WasU(j) == splitting[j] = U_NODE \/ D[j] = 1

\* C11: before the first round weight[i] = base(i) + deg_S(i) for every
\* node i, deg_S(i) the number of entries j # i stored in row i of S.
C11_WeightRowDegree ==
    BeforeFirstRound =>
        \A i \in Nodes : weight[i] = base[i] + wden * OffDiagCount(Sp, Sj, i)

\* C11 as amended: before the first round weight[i] = base(i) + the number
\* of entries j # i stored in row i of T, i.e. the number of rows j # i of
\* S that hold i; that is deg_S(i) when S is symmetric.
C11_WeightColumnDegree ==
    BeforeFirstRound =>
        /\ \A i \in Nodes : weight[i] = base[i] + wden * OffDiagCount(Tp, Tj, i)
        /\ (Sp = Tp /\ Sj = Tj) =>
              \A i \in Nodes : weight[i] = base[i] + wden * OffDiagCount(Sp, Sj, i)

\* The weights are set, S is not symmetric, and a node of non-zero base
\* weight has two off-diagonals in its column and one in its row.
C11_Witness ==
    /\ BeforeFirstRound
    /\ \E i \in Nodes :
          /\ OffDiagCount(Tp, Tj, i) = 2 /\ OffDiagCount(Sp, Sj, i) = 1
          /\ base[i] > 0
          /\ weight[i] = base[i] + 2 * wden

\* C12: a node i selected in a round has weight[i] > weight[j], strictly,
\* for every other node j connected to i in S or T that was U at the
\* selection; a U neighbour of equal weight blocks i.
C12_StrictlyHeavier ==
    JustSelected =>
        \A i, j \in Nodes :
            (D[i] = 1 /\ j # i /\ Adjacent(i, j) /\ WasU(j)) => weight[i] > weight[j]

\* C13: no two distinct nodes of Dlist[0..nD) of one round are connected in
\* S or in T.
C13_RoundIndependent ==
    JustSelected =>
        \A q, r \in 0..(nD - 1) :
            q # r => ~Adjacent(Dlist[q], Dlist[r])

\* C14: every round entered with unassigned > 0 selects a node (nD >= 1),
\* and the loop makes at most n rounds.
C14_RoundSelects ==
    prog = "cljp" =>
        /\ JustSelected => nD >= 1
        /\ pass <= n_nodes
        /\ pc = "done" => unassigned = 0

\* A returned run of three rounds on three nodes, one node selected in the
\* last round.
C14_Witness ==
    prog = "cljp" /\ pc = "done" /\ pass = 3 /\ n_nodes = 3 /\ nD = 1

(***************************************************************************)
(* Properties of cr_helper.                                                *)
(***************************************************************************)
CrReturned == prog = "cr" /\ pc = "done"

\* the number of points of Uindex with omega > 0
NumPositive == Cardinality({q \in DOMAIN Uindex : omega[Uindex[q]] > 0})

\* C15: the greedy loop of cr_helper makes at most |U| passes that find a
\* point, whether or not the diagonal is stored: every pass leaves fewer
\* candidates with omega > 0 than it found.
C15_GreedyTerminates ==
    prog = "cr" =>
        /\ cr_iter <= Len(Uindex)
        /\ pc = "greedy" => cr_iter + NumPositive <= Len(Uindex)

\* C16: on return indices[0] = nf, indices[1..nf] holds the F nodes in
\* ascending order and indices[nf+1..n] the C nodes from the largest to
\* the smallest, so indices[1..n] is a permutation of 0..n-1.
C16_IndicesLayout ==
    CrReturned =>
        LET nf == Cardinality({i \in Nodes : splitting[i] = 0})
        IN  /\ indices[0] = nf
            /\ {indices[q] : q \in 1..nf} = {i \in Nodes : splitting[i] = 0}
            /\ {indices[q] : q \in (nf + 1)..n_nodes} = {i \in Nodes : splitting[i] # 0}
            /\ \A q \in 1..(nf - 1) : indices[q] < indices[q + 1]
            /\ \A q \in (nf + 1)..(n_nodes - 1) : indices[q] > indices[q + 1]
            /\ {indices[q] : q \in 1..n_nodes} = Nodes

\* A returned run on three nodes that made a C point of an F point and
\* leaves one F point and two C points.
C16_Witness ==
    /\ CrReturned /\ cr_iter >= 1
    /\ n_nodes = 3 /\ indices[0] = 1
    /\ indices[2] > indices[3]

(***************************************************************************)
(* Properties of the interpolation kernels.                                *)
(***************************************************************************)
IpRun == prog \in IpProgs

\* pass 2 has returned
IpReturned == IpRun /\ pc = "done"

\* the number of C points before node i
CBefore(i) == Cardinality({j \in Nodes : j < i /\ splitting[j] = C_NODE})

NumC == Cardinality({j \in Nodes : splitting[j] = C_NODE})

\* the slots of row i of P
PRow(i) == P_rowptr[i]..(P_rowptr[i + 1] - 1)

\* C17: with P_rowptr from the matching pass 1, P_rowptr is non-decreasing
\* and pass 2 stores into exactly the slots [P_rowptr[i], P_rowptr[i+1]) for
\* each row i: once the loop has passed row i each of its slots has been
\* stored into once, the slots of the rows still to come not at all, and no
\* store goes to a slot at or beyond P_rowptr[n_nodes].
C17_SlotsStoredOnce ==
    (IpRun /\ pc # "pass1") =>
        /\ \A i \in Nodes : P_rowptr[i] <= P_rowptr[i + 1]
        /\ DOMAIN stores = 0..(P_rowptr[n_nodes] - 1)
        /\ ~oob
        /\ \A e \in DOMAIN stores :
               stores[e] = IF pc = "rows" /\ e >= P_rowptr[row_i] THEN 0 ELSE 1

C17_Witness ==
    /\ prog = "ext_plusi" /\ pc = "done" /\ n_nodes = 5
    /\ \E i \in Nodes :
           /\ splitting[i] = F_NODE
           /\ D2Points(i) # <<>>
           /\ P_rowptr[i + 1] - P_rowptr[i] >= 2

\* C18: when pass 2 has returned, each C row i of P has exactly one entry,
\* with value 1 and column map[i], the number of C nodes with index smaller
\* than i.
C18_CRowInjection ==
    IpReturned =>
        \A i \in Nodes :
            splitting[i] = C_NODE =>
                /\ P_rowptr[i + 1] - P_rowptr[i] = 1
                /\ P_data[P_rowptr[i]] = QInt(1)
                /\ P_colinds[P_rowptr[i]] = CBefore(i)

C18_Witness ==
    /\ prog = "mod_standard" /\ pc = "done" /\ n_nodes = 3
    /\ splitting[0] = C_NODE /\ splitting[1] = F_NODE /\ splitting[2] = C_NODE
    /\ P_colinds[P_rowptr[2]] = 1
    /\ P_rowptr[2] - P_rowptr[1] = 2

\* C19: for a splitting with entries in {0, 1}, every column stored by the
\* row loop is a C node, and after the re-indexing every column index of P
\* lies in [0, n_C) and is the coarse index of a C node.
C19_ColumnsCoarse ==
    /\ (IpRun /\ pc = "reindex") =>
           \A e \in DOMAIN P_colinds :
               P_colinds[e] \in Nodes /\ splitting[P_colinds[e]] = C_NODE
    /\ IpReturned =>
           \A e \in 0..(P_rowptr[n_nodes] - 1) :
               /\ P_colinds[e] \in 0..(NumC - 1)
               /\ \E c \in Nodes : splitting[c] = C_NODE /\ CBefore(c) = P_colinds[e]

C19_Witness ==
    /\ prog = "ext" /\ pc = "done" /\ NumC = 2
    /\ \E i \in Nodes :
           /\ splitting[i] = F_NODE
           /\ {P_colinds[e] : e \in PRow(i)} = {0, 1}

\* scenario S2: the 5-node Laplacian tridiag(-1, 2, -1), S = A, splitting
\* C F C F C, direct interpolation
IsS2 ==
    /\ prog = "direct" /\ n_nodes = 5
    /\ Ap = CsrP(Laplacian5, 5) /\ Aj = CsrJ(Laplacian5)
    /\ Ax = [e \in 0..12 |-> IF e \in {0, 3, 6, 9, 12} THEN 2 ELSE -1]
    /\ Sp = Ap /\ Sj = Aj /\ Sx = Ax
    /\ splitting = [i \in 0..4 |-> IF i % 2 = 0 THEN C_NODE ELSE F_NODE]

Half == [n |-> 1, d |-> 2]

\* C20: in scenario S2 direct interpolation gives P.row_ptr =
\* [0,1,3,4,6,7]; F row 1 has two entries of value 1/2 at coarse columns 0
\* and 1, F row 3 has two entries of value 1/2 at coarse columns 1 and 2.
C20_S2_Direct ==
    (IsS2 /\ pc = "done") =>
        /\ P_rowptr = [i \in 0..5 |-> CASE i = 0 -> 0 [] i = 1 -> 1 [] i = 2 -> 3
                                          [] i = 3 -> 4 [] i = 4 -> 6 [] i = 5 -> 7]
        /\ P_colinds[1] = 0 /\ P_colinds[2] = 1
        /\ P_data[1] = Half /\ P_data[2] = Half
        /\ P_colinds[4] = 1 /\ P_colinds[5] = 2
        /\ P_data[4] = Half /\ P_data[5] = Half

C20_Witness == IsS2 /\ pc = "done" /\ ~oob /\ P_data[0] = QInt(1)

(***************************************************************************)
(* Direct interpolation and constants.                                     *)
(***************************************************************************)
\* the entries of row i of A off the diagonal
AOff(i) == {e \in Ap[i]..(Ap[i + 1] - 1) : Aj[e] # i}

\* the entry e of row r of A is a strong negative connection: row r of the
\* strength matrix stores the column with a negative value
StrongNegative(r, e) ==
    \E s \in Sp[r]..(Sp[r + 1] - 1) : Sj[s] = Aj[e] /\ Sx[s] < 0 /\ Ax[e] < 0

\* every off-diagonal of A is strong and negative, and every neighbour of
\* the F point i is a C point
AllStrongNegativeC(i) ==
    /\ splitting[i] = F_NODE
    /\ \A r \in Nodes : \A e \in AOff(r) : StrongNegative(r, e)
    /\ \A e \in AOff(i) : splitting[Aj[e]] = C_NODE
    /\ \A s \in Sp[i]..(Sp[i + 1] - 1) : Sj[s] # i => splitting[Sj[s]] = C_NODE

\* the sum of the weights of row i of P
WeightSum(i) == QSum([q \in 1..(P_rowptr[i + 1] - P_rowptr[i]) |->
                         P_data[P_rowptr[i] + q - 1]])

\* the sum of row i of A
ARowSum(i) == IntSum([q \in 1..Len(RowSeq(Ap, i)) |-> Ax[RowSeq(Ap, i)[q]]])

\* C21 as stated: if every off-diagonal of A is strong and negative and
\* every neighbour of an F point i is a C point, the direct-interpolation
\* weights of row i of P sum to 1.
C21_DirectSumsToOne ==
    (prog = "direct" /\ pc = "done") =>
        \A i \in Nodes : AllStrongNegativeC(i) => WeightSum(i) = QInt(1)

\* C21: if in addition row i of A has at least one off-diagonal entry and
\* sums to zero (A maps constants to zero in row i), the direct-interpolation
\* weights of row i of P sum to 1; in general they sum to minus the sum of
\* the off-diagonal entries of the row over its diagonal.
C21_DirectSumsToOneZeroRowSum ==
    (prog = "direct" /\ pc = "done") =>
        \A i \in Nodes :
            (AllStrongNegativeC(i) /\ AOff(i) # {}) =>
                /\ ARowSum(i) = 0 => WeightSum(i) = QInt(1)
                /\ WeightSum(i) =
                       QDiv(QInt(-IntSum([q \in 1..Len(RowSeq(Ap, i)) |->
                                             IF Aj[RowSeq(Ap, i)[q]] = i THEN 0
                                             ELSE Ax[RowSeq(Ap, i)[q]]])),
                            QInt(AEntry(i, i)))

C21_Witness ==
    /\ prog = "direct" /\ pc = "done" /\ n_nodes = 3
    /\ \E i \in Nodes :
           /\ AllStrongNegativeC(i)
           /\ Cardinality(AOff(i)) = 2
           /\ ARowSum(i) = 0
           /\ WeightSum(i) = QInt(1)

(***************************************************************************)
(* Properties of remove_strong_FF_connections.                             *)
(***************************************************************************)
\* the columns stored in row i of C
ColsOf(i) == {Sj[e] : e \in Sp[i]..(Sp[i + 1] - 1)}

\* some C node appears both in row `row` and in row j of C
CommonC(row, j) ==
    \E c \in ColsOf(row) \cap ColsOf(j) : splitting[c] = C_NODE

\* a step of the kernel that handles row row_i
FfHandlesRow == prog = "remove_ff" /\ row_i' = row_i + 1

\* C22: when the kernel handles an F row, every entry (row, j) of C with
\* j # row and j an F node becomes 0 if no C node appears both in row `row`
\* and in row j of C, and keeps its value if there is such a C node.
C22_ZeroedIffNoCommonC ==
    [][FfHandlesRow =>
          \A e \in Sp[row_i]..(Sp[row_i + 1] - 1) :
              (splitting[row_i] = F_NODE /\ Sj[e] # row_i /\ splitting[Sj[e]] = F_NODE) =>
                  Sx'[e] = IF CommonC(row_i, Sj[e]) THEN Sx[e] ELSE 0]_vars

C22_Witness ==
    /\ prog = "remove_ff" /\ pc = "done" /\ n_nodes = 3
    /\ \E row \in Nodes : \E e \in Sp[row]..(Sp[row + 1] - 1) :
           /\ splitting[row] = F_NODE /\ Sj[e] # row /\ splitting[Sj[e]] = F_NODE
           /\ CommonC(row, Sj[e])
           /\ Sx[e] = e + 1

\* C23: the kernel leaves C_rowptr, C_colinds and splitting alone, and a
\* value of C changes only at an entry (row, j) with row and j both F nodes
\* and j # row.
C23_OnlyFFOffDiagonalChange ==
    [][prog = "remove_ff" =>
          /\ Sp' = Sp /\ Sj' = Sj /\ splitting' = splitting
          /\ \A i \in Nodes : \A e \in Sp[i]..(Sp[i + 1] - 1) :
                 Sx'[e] # Sx[e] =>
                     splitting[i] = F_NODE /\ splitting[Sj[e]] = F_NODE /\ Sj[e] # i]_vars

(***************************************************************************)
(* Properties of cljp_naive_splitting: the generator and the counter.      *)
(***************************************************************************)
\* C24: a call of cljp_naive_splitting with colorflag = 0 leaves the
\* generator of the process as it found it: no step of the call changes the
\* state that srand() and rand() share with the rest of the process.
C24_GeneratorPrivate ==
    [][(prog = "cljp" /\ colorflag = 0) => rand_state' = rand_state]_vars

(***************************************************************************)
(* Properties of the buckets of rs_cf_splitting.                           *)
(***************************************************************************)
\* the positions of index_to_node that belong to the interval of lambda v
Interval(v) == interval_ptr[v]..(interval_ptr[v] + interval_count[v] - 1)

\* C25: at the start of every pass of the main loop, for every value v the
\* positions [interval_ptr[v], interval_ptr[v] + interval_count[v]) of
\* index_to_node hold exactly the nodes that are U and have lambda = v.
C25_BucketInvariant ==
    (prog = "rs" /\ pc = "select") =>
        \A v \in 0..n_nodes :
            /\ Interval(v) \subseteq 0..(n_nodes - 1)
            /\ {index_to_node[p] : p \in Interval(v)} =
                   {i \in Nodes : splitting[i] = U_NODE /\ lambda[i] = v}

\* C26: after the bucket set-up and after every bucket move index_to_node
\* and node_to_index are mutually inverse permutations of 0..n-1.
C26_InversePermutations ==
    (prog = "rs" /\ pc \notin {"start", "fault"}) =>
        /\ \A p \in 0..(n_nodes - 1) :
               index_to_node[p] \in Nodes /\ node_to_index[index_to_node[p]] = p
        /\ \A v \in Nodes :
               node_to_index[v] \in 0..(n_nodes - 1) /\ index_to_node[node_to_index[v]] = v

(***************************************************************************)
(* The outer denominator of the extended kernels.                          *)
(***************************************************************************)
\* how often the loops of lines 1397-1410 subtract the entry (i, m) of A
\* from the row sum: once for each strong entry (i, m) of C, and once each
\* time m is reached as a distance-two C point, when row i of A stores m
Subtractions(i, m) ==
    Cardinality({e \in Sp[i]..(Sp[i + 1] - 1) : Sj[e] = m})
    + (IF \E a \in Ap[i]..(Ap[i + 1] - 1) : Aj[a] = m
       THEN Cardinality({q \in 1..Len(D2Points(i)) : D2Points(i)[q] = m})
       ELSE 0)

\* C27: in pass 2 of extended and extended+i, the outer denominator of an
\* F row i has each off-diagonal entry A[i,m] subtracted at most once: a
\* distance-two C point m is subtracted only when (i,m) is not a strong
\* entry of C, and only once however many strong F neighbours lead to it.
C27_SubtractedAtMostOnce ==
    (prog \in {"ext", "ext_plusi"} /\ pc \in {"reindex", "done"}) =>
        \A i \in Nodes :
            splitting[i] = F_NODE =>
                \A m \in Nodes \ {i} : Subtractions(i, m) <= 1

(***************************************************************************)
(* cr_helper: the new C points.                                            *)
(***************************************************************************)
\* the nodes the call has flipped from F to C so far
NewCPoints == {p \in FSet : splitting[p] = 1}

\* C28: no two distinct nodes that one call of cr_helper flips from F to C
\* are adjacent in A: for two new C points p and q neither (p,q) nor (q,p)
\* is a stored entry of A.
C28_NewCIndependent ==
    (prog = "cr" /\ pc = "greedy") =>
        \A p \in NewCPoints : \A q \in NewCPoints \ {p} : q \notin RowCols(p)

(***************************************************************************)
(* rs_cf_splitting: every F point taken in the main loop has a C point.    *)
(***************************************************************************)
\* T holds the transposed pattern of S
TIsTransposeOfS ==
    \A i, j \in Nodes :
        (\E e \in Tp[i]..(Tp[i + 1] - 1) : Tj[e] = j)
            <=> (\E e \in Sp[j]..(Sp[j + 1] - 1) : Sj[e] = i)

\* C29: when T is the transpose of S, every node the splitting returns as
\* F whose row of T is neither empty nor the node alone has a C node in
\* its row of S.
C29_FDependsOnC ==
    (prog = "rs" /\ Returned /\ TIsTransposeOfS) =>
        \A i \in Nodes :
            (splitting[i] = F_NODE /\ ~NoInfluence(i)) =>
                \E e \in Sp[i]..(Sp[i + 1] - 1) : splitting[Sj[e]] = C_NODE

C29_Witness ==
    /\ prog = "rs" /\ Returned /\ TIsTransposeOfS /\ n_nodes = 3 /\ ~oob
    /\ \E i \in Nodes :
           /\ splitting[i] = F_NODE /\ ~NoInfluence(i)
           /\ Cardinality({e \in Sp[i]..(Sp[i + 1] - 1) : splitting[Sj[e]] = C_NODE}) = 2

\* the nodes whose tag is U
UNodes == {i \in Nodes : splitting[i] = U_NODE}

\* C30: at the start and at the end of every round of cljp_naive_splitting
\* the counter unassigned equals the number of nodes tagged U and is not
\* negative; no node is U when the loop is left, so the pass of lines
\* 519-522 changes nothing.
C30_UnassignedCountsU ==
    /\ (prog = "cljp" /\ pc = "round") =>
           unassigned = Cardinality(UNodes) /\ unassigned >= 0
    /\ (prog = "cljp" /\ pc = "done") => unassigned = 0 /\ UNodes = {}

\* C30, the last pass: the step that leaves the loop re-tags no node.
C30_Witness ==
    /\ prog = "cljp" /\ pc = "done" /\ n_nodes = 3 /\ pass >= 2
    /\ unassigned = 0
    /\ \E i, j \in Nodes : splitting[i] = F_NODE /\ splitting[j] = C_NODE
====
